---- MODULE Spec2Model ----
(***************************************************************************)
(* Model of the API-access layer of the IoT-ESP mobile client              *)
(* (src/services/api.ts) and of its credential store (src/utils/auth.ts).  *)
(*                                                                         *)
(* Every exported async function of the service layer is an operator that  *)
(* computes, from its arguments and from what has happened so far to the   *)
(* requests it issues, the outcome of the call (still pending, a returned  *)
(* value or a thrown error) and the list of HTTP exchanges it made.  The   *)
(* actions of the state machine are the calls a client makes, one per      *)
(* function, and the events a call awaits: the network settling a request  *)
(* and the abort timer of a request firing.                                *)
(***************************************************************************)
EXTENDS Integers, Sequences, FiniteSets, TLC

VARIABLES
  storage,   \* AsyncStorage: key -> stored string (only present keys)
  now,       \* the wall clock, in seconds since the epoch
  pc,        \* position of the calling code: "idle", "awaiting", "settled"
  call,      \* the call in progress: function name, arguments, and whether
             \* the platform storage works during the call
  answers,   \* what has happened to the requests of the call, in order
  ret,       \* outcome of the call: Pending, <<"return", v>> or <<"throw", e>>
  net,       \* HTTP exchanges issued by the call so far, in order
  io,        \* local operations of the call (storage, timed waits), in order
  ui         \* the UI component under study: its React state and the
             \* requests of its handlers that are in flight

vars == <<storage, now, pc, call, answers, ret, net, io, ui>>

----------------------------------------------------------------------------
(* Bounds of the model *)

MaxTime == 1

\* control requests of the relay panel in flight at once
MaxFlights == 2

\* polling cycles that the sensor detail screen starts
MaxCycles == 2

----------------------------------------------------------------------------
(* JavaScript values.  A value is a tuple whose first element is its type  *)
(* tag, so values of different types can be compared.                      *)

Undefined == <<"undefined">>
Null == <<"null">>
Bool(b) == <<"boolean", b>>
Num(n) == <<"number", n>>
Str(s) == <<"string", s>>
Arr(s) == <<"array", s>>
Obj(r) == <<"object", r>>
Err(name, msg) == <<"error", name, msg>>

TypeOf(v) == v[1]

\* ToBoolean(v) is false
Falsy(v) == v \in {Undefined, Null, Bool(FALSE), Num(0), Str("")}

Truthy(v) == ~Falsy(v)

\* a || b
OrElse(a, b) == IF Falsy(a) THEN b ELSE a

\* reading a property of null or undefined throws a TypeError
Nullish(v) == v \in {Undefined, Null}

\* o.f for a non-nullish o: a missing property reads as undefined
Get(o, f) ==
  IF TypeOf(o) = "object" /\ f \in DOMAIN o[2] THEN o[2][f] ELSE Undefined

\* o?.f
OptGet(o, f) == IF Nullish(o) THEN Undefined ELSE Get(o, f)

\* String(v), as a header value is coerced
ToStr(v) == IF TypeOf(v) = "string" THEN v[2] ELSE TypeOf(v)

\* Array.isArray(v)
IsArray(v) == TypeOf(v) = "array"

\* outcome of an async function
Return(v) == <<"return", v>>
Throw(e) == <<"throw", e>>
Pending == <<"pending">>

\* new Date(t).toISOString(), t in seconds, 0 <= t <= 9
toISOString(t) == Str("1970-01-01T00:00:0" \o ToString(t) \o ".000Z")

----------------------------------------------------------------------------
(* The environment: what has happened to one request so far.               *)
(*   <<"unanswered">>              still in flight                         *)
(*   <<"response", status, body>>  the backend answered                    *)
(*   <<"neterror">>                the connection failed                   *)
(*   <<"timerfired">>              the abort timer of the request fired    *)
(*                                 while it was in flight                  *)
(* body is the JSON value of the response text, or Unparseable.            *)

Unparseable == <<"unparseable">>

Response(status, body) == <<"response", status, body>>
NetError == <<"neterror">>
Unanswered == <<"unanswered">>
TimerFired == <<"timerfired">>

\* response.ok
ok(response) == response[2] >= 200 /\ response[2] <= 299
status(response) == response[2]

\* await response.json(): <<TRUE, value>> or <<FALSE>> when it throws
json(response) ==
  IF response[3] = Unparseable THEN <<FALSE>> ELSE <<TRUE, response[3]>>

----------------------------------------------------------------------------
(* HTTP *)

API_URL == "https://iot-backend-dj8u.onrender.com/api"

DefaultTimeout == 60000

NoOptions == [k \in {} |-> Undefined]
NoHeaders == [k \in {} |-> ""]

\* JSON.stringify(v): the text is kept as the value it denotes
JSONstringify(v) == <<"json", v>>

\* The platform's fetch(url, init).  The request it sends, and what the
\* caller observes: a response, a rejection (connection failure, or abort
\* through init.signal), or a promise that has not settled.
fetch(url, init, raw) ==
  [req |-> [url |-> url,
            method |-> IF "method" \in DOMAIN init THEN init.method ELSE "GET",
            headers |-> IF "headers" \in DOMAIN init THEN init.headers
                        ELSE NoHeaders,
            body |-> IF "body" \in DOMAIN init THEN init.body ELSE Undefined],
   timeout |-> 0,
   timer |-> "none",
   res |-> CASE raw = Unanswered -> Pending
             [] raw = NetError ->
                  Throw(Err("TypeError", "Network request failed"))
             [] raw = TimerFired /\ "signal" \in DOMAIN init ->
                  Throw(Err("AbortError", "Aborted"))
             [] raw = TimerFired -> Pending
             [] OTHER -> Return(raw)]

\* faulty variant: the timer is not cleared when the call settles
fetchWithTimeout_NoClear(url, options, timeout, raw) ==
  LET optHeaders == IF "headers" \in DOMAIN options THEN options.headers
                    ELSE NoHeaders
      init == ("signal" :> "controller.signal")
              @@ ("headers" :> (optHeaders
                                @@ ("Content-Type" :> "application/json")))
              @@ options
      f == fetch(url, init, raw)
  IN  [req |-> f.req,
       timeout |-> timeout,
       timer |-> IF raw = TimerFired THEN "fired" ELSE "armed",
       res |-> f.res]

\* fetch with an abort timer: a call still in flight when the timer fires
\* is aborted and rejects; a call that settles first clears the timer.
fetchWithTimeout(url, options, timeout, raw) ==
  LET optHeaders == IF "headers" \in DOMAIN options THEN options.headers
                    ELSE NoHeaders
      init == ("signal" :> "controller.signal")
              @@ ("headers" :> (optHeaders
                                @@ ("Content-Type" :> "application/json")))
              @@ options
      f == fetch(url, init, raw)
  IN  [req |-> f.req,
       timeout |-> timeout,
       timer |-> CASE raw = Unanswered -> "armed"
                   [] raw = TimerFired -> "fired"
                   [] OTHER -> "cleared",
       res |-> f.res]

InFlight(x) == x.res = Pending

Threw(x) == x.res[1] = "throw"

----------------------------------------------------------------------------
(* Sensor Data Service: history *)

HistoryResult(success, data) ==
  Obj([success |-> Bool(success), data |-> Arr(data)])

\* faulty variant: distance is copied as the other fields are
mapReading_Raw(reading) ==
  Obj([temperature |-> Get(reading, "temperature"),
       humidity |-> Get(reading, "humidity"),
       soilMoisture |-> Get(reading, "soilMoisture"),
       distance |-> Get(reading, "distance"),
       timestamp |-> Get(reading, "timestamp")])

\* the callback of data.data.map at api.ts:363
mapReading(reading) ==
  Obj([temperature |-> Get(reading, "temperature"),
       humidity |-> Get(reading, "humidity"),
       soilMoisture |-> Get(reading, "soilMoisture"),
       distance |-> OrElse(Get(reading, "distance"), Num(0)),
       timestamp |-> Get(reading, "timestamp")])

\* faulty variant: a 404 is handled like any other error status
historyOutcome_404IsError(x) ==
  LET failure == Return(HistoryResult(FALSE, <<>>))
      response == x.res[2]
      parsed == json(response)
      data == parsed[2]
      readings == Get(data, "data")[2]
  IN  IF InFlight(x) THEN Pending
      ELSE IF Threw(x) THEN failure
      ELSE IF ~ok(response) THEN failure
      ELSE IF ~parsed[1] THEN failure
      ELSE IF Nullish(data) THEN failure
      ELSE IF Falsy(Get(data, "success")) \/ ~IsArray(Get(data, "data"))
        THEN failure
      ELSE IF \E i \in 1..Len(readings) : Nullish(readings[i]) THEN failure
      ELSE Return(HistoryResult(TRUE,
             [i \in 1..Len(readings) |-> mapReading(readings[i])]))

\* what fetchHistoryData makes of the outcome x of its request: the code
\* after the await of api.ts:338, with the catch block of api.ts:371
historyOutcome(x) ==
  LET failure == Return(HistoryResult(FALSE, <<>>))
      response == x.res[2]
      parsed == json(response)
      data == parsed[2]
      readings == Get(data, "data")[2]
  IN  IF InFlight(x) THEN Pending
      ELSE IF Threw(x) THEN failure
      ELSE IF status(response) = 404 THEN Return(HistoryResult(TRUE, <<>>))
      ELSE IF ~ok(response) THEN failure
      ELSE IF ~parsed[1] THEN failure
      ELSE IF Nullish(data) THEN failure
      ELSE IF Falsy(Get(data, "success")) \/ ~IsArray(Get(data, "data"))
        THEN failure
      ELSE IF \E i \in 1..Len(readings) : Nullish(readings[i]) THEN failure
      ELSE Return(HistoryResult(TRUE,
             [i \in 1..Len(readings) |-> mapReading(readings[i])]))

\* faulty variant: the request is issued for an empty device id as well
fetchHistoryData_NoIdCheck(deviceId, limit, raw) ==
  LET x == fetchWithTimeout(API_URL \o "/devices/" \o deviceId
                              \o "/history?limit=" \o ToString(limit),
                            NoOptions, DefaultTimeout, raw)
  IN  [out |-> historyOutcome(x), net |-> <<x>>]

fetchHistoryData(deviceId, limit, raw) ==
  LET x == fetchWithTimeout(API_URL \o "/devices/" \o deviceId
                              \o "/history?limit=" \o ToString(limit),
                            NoOptions, DefaultTimeout, raw)
  IN  IF deviceId = ""
      THEN [out |-> Return(HistoryResult(FALSE, <<>>)), net |-> <<>>]
      ELSE [out |-> historyOutcome(x), net |-> <<x>>]

----------------------------------------------------------------------------
(* Sensor Data Service: latest reading *)

LatestResult(success, data) == Obj([success |-> Bool(success), data |-> data])

\* the synthetic reading of api.ts:266 and api.ts:318, stamped at time t
ZeroReading(t) ==
  Obj([temperature |-> Num(0), humidity |-> Num(0), soilMoisture |-> Num(0),
       distance |-> Num(0), timestamp |-> toISOString(t)])

\* historyResponse.success && historyResponse.data.length > 0
hasReadings(historyResponse) ==
  Truthy(Get(historyResponse, "success"))
    /\ Len(Get(historyResponse, "data")[2]) > 0

\* faulty variant: the 404 branch reports failure as the catch block does
latestNotFound_AsCaught(h, t) ==
  IF h = Pending THEN Pending
  ELSE IF hasReadings(h[2])
    THEN Return(LatestResult(TRUE, Get(h[2], "data")[2][1]))
  ELSE Return(LatestResult(FALSE, ZeroReading(t)))

\* the 404 branch of fetchLatestData; h is the outcome of
\* fetchHistoryData(deviceId, 1), t the clock when the branch returns
latestNotFound(h, t) ==
  IF h = Pending THEN Pending
  ELSE IF hasReadings(h[2])
    THEN Return(LatestResult(TRUE, Get(h[2], "data")[2][1]))
  ELSE Return(LatestResult(TRUE, ZeroReading(t)))

\* faulty variant: the catch block ignores the history
latestCaught_NoFallback(h, t) ==
  IF h = Pending THEN Pending
  ELSE Return(LatestResult(FALSE, ZeroReading(t)))

\* the catch block of fetchLatestData
latestCaught(h, t) ==
  IF h = Pending THEN Pending
  ELSE IF hasReadings(h[2])
    THEN Return(LatestResult(TRUE, Get(h[2], "data")[2][1]))
  ELSE Return(LatestResult(FALSE, ZeroReading(t)))

\* faulty variant: a 404 branch that finds no reading in the history throws,
\* and the catch block runs the history fallback again
fetchLatestData_FallbackTwice(deviceId, raw1, raw2, t) ==
  LET h == fetchHistoryData(deviceId, 1, raw2)
      again == fetchHistoryData(deviceId, 1, Unanswered)
      x == fetchWithTimeout(API_URL \o "/devices/" \o deviceId \o "/latest",
                            NoOptions, DefaultTimeout, raw1)
  IN  IF deviceId = ""
      THEN [out |-> latestCaught(h.out, t), net |-> h.net]
      ELSE IF InFlight(x) THEN [out |-> Pending, net |-> <<x>>]
      ELSE IF Threw(x) \/ status(x.res[2]) # 404
        THEN [out |-> latestCaught(h.out, t), net |-> <<x>> \o h.net]
      ELSE IF h.out = Pending \/ hasReadings(h.out[2])
        THEN [out |-> latestNotFound(h.out, t), net |-> <<x>> \o h.net]
      ELSE [out |-> Pending, net |-> <<x>> \o h.net \o again.net]

\* raw1 is the state of the /latest request, raw2 that of the history request
\* (if one is made), t is the clock when the function returns
fetchLatestData(deviceId, raw1, raw2, t) ==
  LET h == fetchHistoryData(deviceId, 1, raw2)
      x == fetchWithTimeout(API_URL \o "/devices/" \o deviceId \o "/latest",
                            NoOptions, DefaultTimeout, raw1)
      response == x.res[2]
      parsed == json(response)
      data == parsed[2]
      d == Get(data, "data")
      caught == [out |-> latestCaught(h.out, t), net |-> <<x>> \o h.net]
  IN  IF deviceId = ""
      THEN [out |-> latestCaught(h.out, t), net |-> h.net]
      ELSE IF InFlight(x) THEN [out |-> Pending, net |-> <<x>>]
      ELSE IF Threw(x) THEN caught
      ELSE IF status(response) = 404
        THEN [out |-> latestNotFound(h.out, t), net |-> <<x>> \o h.net]
      ELSE IF ~ok(response) THEN caught
      ELSE IF ~parsed[1] THEN caught
      ELSE IF Nullish(data) THEN caught
      ELSE IF Falsy(Get(data, "success")) \/ Falsy(d) THEN caught
      ELSE [out |-> Return(LatestResult(TRUE,
                      Obj([temperature |-> Get(d, "temperature"),
                           humidity |-> Get(d, "humidity"),
                           soilMoisture |-> Get(d, "soilMoisture"),
                           distance |-> Get(d, "distance"),
                           timestamp |-> Get(d, "timestamp")]))),
            net |-> <<x>>]

----------------------------------------------------------------------------
(* Sensor Data Service: submitting a reading *)

HttpError(response) ==
  Err("Error", "HTTP error! status: " \o ToString(status(response)))

SyntaxError == Err("SyntaxError", "JSON Parse error")
TypeError == Err("TypeError", "Cannot read property of null")
InvalidFormat == Err("Error", "Invalid response format")

\* faulty variant: the bounds themselves are rejected
validateRanges_Exclusive(temperature, humidity, soilMoisture) ==
  IF temperature <= -40 \/ temperature >= 80
    THEN Throw(Err("Error", "Temperature must be between -40C and 80C"))
  ELSE IF humidity <= 0 \/ humidity >= 100
    THEN Throw(Err("Error", "Humidity must be between 0% and 100%"))
  ELSE IF soilMoisture <= 0 \/ soilMoisture >= 100
    THEN Throw(Err("Error", "Soil moisture must be between 0% and 100%"))
  ELSE Return(Undefined)

\* the range checks of sendSensorData: the error thrown, or Return(Undefined)
\* when the three values pass (the messages are written without the degree
\* sign of the source)
validateRanges(temperature, humidity, soilMoisture) ==
  IF temperature < -40 \/ temperature > 80
    THEN Throw(Err("Error", "Temperature must be between -40C and 80C"))
  ELSE IF humidity < 0 \/ humidity > 100
    THEN Throw(Err("Error", "Humidity must be between 0% and 100%"))
  ELSE IF soilMoisture < 0 \/ soilMoisture > 100
    THEN Throw(Err("Error", "Soil moisture must be between 0% and 100%"))
  ELSE Return(Undefined)

\* faulty variant: humidity and soilMoisture change places in the body
sensorDataOptions_Swapped(deviceId, temperature, humidity, soilMoisture, authToken) ==
  [method |-> "POST",
   headers |-> ("Content-Type" :> "application/json")
               @@ ("x-auth-token" :> authToken),
   body |-> JSONstringify(Obj([deviceId |-> Str(deviceId),
                               temperature |-> Num(temperature),
                               humidity |-> Num(soilMoisture),
                               soilMoisture |-> Num(humidity)]))]

\* faulty variant: the token is left out of the headers
sensorDataOptions_NoToken(deviceId, temperature, humidity, soilMoisture, authToken) ==
  [method |-> "POST",
   headers |-> ("Content-Type" :> "application/json"),
   body |-> JSONstringify(Obj([deviceId |-> Str(deviceId),
                               temperature |-> Num(temperature),
                               humidity |-> Num(humidity),
                               soilMoisture |-> Num(soilMoisture)]))]

\* the options of the POST of sendSensorData
sensorDataOptions(deviceId, temperature, humidity, soilMoisture, authToken) ==
  [method |-> "POST",
   headers |-> ("Content-Type" :> "application/json")
               @@ ("x-auth-token" :> authToken),
   body |-> JSONstringify(Obj([deviceId |-> Str(deviceId),
                               temperature |-> Num(temperature),
                               humidity |-> Num(humidity),
                               soilMoisture |-> Num(soilMoisture)]))]

\* faulty variant: failures are returned as success:false, as on read paths
sentOutcome_Swallow(x) ==
  LET response == x.res[2]
      parsed == json(response)
      data == parsed[2]
      d == Get(data, "data")
      failure == Return(Obj([success |-> Bool(FALSE), data |-> Null]))
  IN  IF InFlight(x) THEN Pending
      ELSE IF Threw(x) THEN failure
      ELSE IF ~ok(response) THEN failure
      ELSE IF ~parsed[1] THEN failure
      ELSE IF Nullish(data) THEN failure
      ELSE IF Falsy(Get(data, "success")) \/ Falsy(d) THEN failure
      ELSE Return(Obj([success |-> Bool(TRUE),
             data |-> Obj([deviceId |-> Get(d, "deviceId"),
                           temperature |-> Get(d, "temperature"),
                           humidity |-> Get(d, "humidity"),
                           soilMoisture |-> Get(d, "soilMoisture"),
                           timestamp |-> Get(d, "timestamp")])]))

\* what sendSensorData makes of the outcome x of its POST
sentOutcome(x) ==
  LET response == x.res[2]
      parsed == json(response)
      data == parsed[2]
      d == Get(data, "data")
  IN  IF InFlight(x) THEN Pending
      ELSE IF Threw(x) THEN x.res
      ELSE IF ~ok(response) THEN Throw(HttpError(response))
      ELSE IF ~parsed[1] THEN Throw(SyntaxError)
      ELSE IF Nullish(data) THEN Throw(TypeError)
      ELSE IF Falsy(Get(data, "success")) \/ Falsy(d)
        THEN Throw(InvalidFormat)
      ELSE Return(Obj([success |-> Bool(TRUE),
             data |-> Obj([deviceId |-> Get(d, "deviceId"),
                           temperature |-> Get(d, "temperature"),
                           humidity |-> Get(d, "humidity"),
                           soilMoisture |-> Get(d, "soilMoisture"),
                           timestamp |-> Get(d, "timestamp")])]))

sendSensorData(deviceId, temperature, humidity, soilMoisture, authToken, raw) ==
  LET v == validateRanges(temperature, humidity, soilMoisture)
      x == fetchWithTimeout(API_URL \o "/data",
             sensorDataOptions(deviceId, temperature, humidity, soilMoisture,
                               authToken),
             DefaultTimeout, raw)
  IN  IF v[1] = "throw"
      THEN [out |-> v, net |-> <<>>]
      ELSE [out |-> sentOutcome(x), net |-> <<x>>]

----------------------------------------------------------------------------
(* Credential Store *)

AUTH_TOKEN_KEY == "@auth_token"

\* faulty variant: one key for all devices
TokenKey_Shared(deviceId) == AUTH_TOKEN_KEY \o "_"

\* the composite key `${AUTH_TOKEN_KEY}_${deviceId}`
TokenKey(deviceId) == AUTH_TOKEN_KEY \o "_" \o deviceId

\* AsyncStorage.setItem(key, value) on the store st; works = FALSE when the
\* platform storage rejects the operation, which then writes nothing
setItem(st, key, value, works) ==
  [st |-> IF works
          THEN [k \in DOMAIN st \cup {key} |-> IF k = key THEN value ELSE st[k]]
          ELSE st,
   res |-> IF works THEN Return(Undefined)
           ELSE Throw(Err("Error", "AsyncStorage failure")),
   op |-> [op |-> "setItem", key |-> key, works |-> works]]

\* AsyncStorage.getItem(key)
getItem(st, key, works) ==
  [res |-> IF ~works THEN Throw(Err("Error", "AsyncStorage failure"))
           ELSE IF key \in DOMAIN st THEN Return(Str(st[key]))
           ELSE Return(Null),
   op |-> [op |-> "getItem", key |-> key, works |-> works]]

\* faulty variant: nothing is written
storeAuthToken_NoWrite(st, deviceId, token, works) ==
  LET w == setItem(st, TokenKey(deviceId), token, works)
  IN  [st |-> st, out |-> Return(Undefined), io |-> <<w.op>>]

\* faulty variant: no try/catch around setItem
storeAuthToken_Rethrow(st, deviceId, token, works) ==
  LET w == setItem(st, TokenKey(deviceId), token, works)
  IN  [st |-> w.st, out |-> w.res, io |-> <<w.op>>]

storeAuthToken(st, deviceId, token, works) ==
  LET w == setItem(st, TokenKey(deviceId), token, works)
  IN  [st |-> w.st, out |-> Return(Undefined), io |-> <<w.op>>]

getAuthToken(st, deviceId, works) ==
  LET r == getItem(st, TokenKey(deviceId), works)
  IN  [out |-> IF r.res[1] = "throw" THEN Return(Null) ELSE r.res,
       io |-> <<r.op>>]

----------------------------------------------------------------------------
(* Relay Control Service *)

NoToken == Err("Error", "No auth token found for device")
InvalidServerFormat == Err("Error", "Invalid response format from server")

\* faulty variant: only an undefined token counts as missing
tokenMissing_Strict(authToken) == authToken = Undefined

\* if (!authToken)
tokenMissing(authToken) == Falsy(authToken)

\* lines 470-493 and 540-563 of api.ts: what both relay functions do with
\* the outcome x of their fetch
\* faulty variant: the result is rebuilt from the three checked fields
relayOutcome_Rebuilt(x) ==
  LET response == x.res[2]
      parsed == json(response)
      data == parsed[2]
  IN  IF InFlight(x) THEN Pending
      ELSE IF Threw(x) THEN x.res
      ELSE IF ~ok(response) THEN Throw(HttpError(response))
      ELSE IF ~parsed[1] THEN Throw(SyntaxError)
      ELSE IF Nullish(data) THEN Throw(TypeError)
      ELSE IF \/ Falsy(Get(data, "success"))
              \/ Falsy(Get(data, "deviceId"))
              \/ Falsy(Get(data, "relays"))
        THEN Throw(InvalidServerFormat)
      ELSE Return(Obj([success |-> Get(data, "success"),
                       deviceId |-> Get(data, "deviceId"),
                       relays |-> Get(data, "relays")]))

\* faulty variant: a body without deviceId is accepted
relayOutcome_NoDeviceId(x) ==
  LET response == x.res[2]
      parsed == json(response)
      data == parsed[2]
  IN  IF InFlight(x) THEN Pending
      ELSE IF Threw(x) THEN x.res
      ELSE IF ~ok(response) THEN Throw(HttpError(response))
      ELSE IF ~parsed[1] THEN Throw(SyntaxError)
      ELSE IF Nullish(data) THEN Throw(TypeError)
      ELSE IF Falsy(Get(data, "success")) \/ Falsy(Get(data, "relays"))
        THEN Throw(InvalidServerFormat)
      ELSE Return(data)

relayOutcome(x) ==
  LET response == x.res[2]
      parsed == json(response)
      data == parsed[2]
  IN  IF InFlight(x) THEN Pending
      ELSE IF Threw(x) THEN x.res
      ELSE IF ~ok(response) THEN Throw(HttpError(response))
      ELSE IF ~parsed[1] THEN Throw(SyntaxError)
      ELSE IF Nullish(data) THEN Throw(TypeError)
      ELSE IF Falsy(Get(data, "success")) \/ Falsy(Get(data, "deviceId"))
              \/ Falsy(Get(data, "relays"))
        THEN Throw(InvalidServerFormat)
      ELSE Return(data)

getRelayStatus(st, deviceId, works, raw) ==
  LET t == getAuthToken(st, deviceId, works)
      authToken == t.out[2]
      x == fetch(API_URL \o "/relay/status/" \o deviceId,
                 [headers |-> ("x-auth-token" :> ToStr(authToken))], raw)
  IN  IF tokenMissing(authToken)
      THEN [out |-> Throw(NoToken), net |-> <<>>, io |-> t.io]
      ELSE [out |-> relayOutcome(x), net |-> <<x>>, io |-> t.io]

controlRelay(st, deviceId, relayNumber, state, works, raw) ==
  LET t == getAuthToken(st, deviceId, works)
      authToken == t.out[2]
      x == fetch(API_URL \o "/relay/control",
                 [method |-> "POST",
                  headers |-> ("Content-Type" :> "application/json")
                              @@ ("x-auth-token" :> ToStr(authToken)),
                  body |-> JSONstringify(Obj([deviceId |-> Str(deviceId),
                                              relayNumber |-> Num(relayNumber),
                                              state |-> Str(state)]))],
                 raw)
  IN  IF tokenMissing(authToken)
      THEN [out |-> Throw(NoToken), net |-> <<>>, io |-> t.io]
      ELSE [out |-> relayOutcome(x), net |-> <<x>>, io |-> t.io]

----------------------------------------------------------------------------
(* Device Directory Service *)

DevicesResult(success, devices) ==
  Obj([success |-> Bool(success), count |-> Num(Len(devices)),
       devices |-> Arr(devices)])

\* the callback of data.devices.map at api.ts:187
mapDevice(device) ==
  Obj([_id |-> OrElse(OrElse(OptGet(Get(device, "_id"), "$oid"),
                             Get(device, "_id")),
                      Get(device, "deviceId")),
       deviceId |-> Get(device, "deviceId"),
       name |-> Get(device, "name"),
       location |-> Get(device, "location"),
       createdAt |-> OrElse(OrElse(OptGet(Get(device, "createdAt"), "$date"),
                                   Get(device, "createdAt")),
                            Get(device, "lastSeen")),
       authToken |-> OrElse(Get(device, "authToken"),
                            Get(device, "auth_token"))])

\* faulty variant: the catch block rethrows
devicesOutcome_Rethrow(x) ==
  LET response == x.res[2]
      parsed == json(response)
      data == parsed[2]
      devices == Get(data, "devices")[2]
  IN  IF InFlight(x) THEN Pending
      ELSE IF Threw(x) THEN x.res
      ELSE IF ~ok(response) THEN Throw(HttpError(response))
      ELSE IF ~parsed[1] THEN Throw(SyntaxError)
      ELSE IF Nullish(data) THEN Throw(TypeError)
      ELSE IF Falsy(Get(data, "success")) \/ ~IsArray(Get(data, "devices"))
        THEN Throw(InvalidFormat)
      ELSE IF \E i \in 1..Len(devices) : Nullish(devices[i])
        THEN Throw(TypeError)
      ELSE Return(DevicesResult(TRUE,
             [i \in 1..Len(devices) |-> mapDevice(devices[i])]))

\* what fetchDevices makes of the outcome x of its request
devicesOutcome(x) ==
  LET failure == Return(DevicesResult(FALSE, <<>>))
      response == x.res[2]
      parsed == json(response)
      data == parsed[2]
      devices == Get(data, "devices")[2]
  IN  IF InFlight(x) THEN Pending
      ELSE IF Threw(x) THEN failure
      ELSE IF ~ok(response) THEN failure
      ELSE IF ~parsed[1] THEN failure
      ELSE IF Nullish(data) THEN failure
      ELSE IF Falsy(Get(data, "success")) \/ ~IsArray(Get(data, "devices"))
        THEN failure
      ELSE IF \E i \in 1..Len(devices) : Nullish(devices[i]) THEN failure
      ELSE Return(DevicesResult(TRUE,
             [i \in 1..Len(devices) |-> mapDevice(devices[i])]))

fetchDevices(raw) ==
  LET x == fetchWithTimeout(API_URL \o "/devices/count", NoOptions,
                            DefaultTimeout, raw)
  IN  [out |-> devicesOutcome(x), net |-> <<x>>]

\* the state of the i-th request of a call whose requests so far ended as ans
RawAt(ans, i) == IF i <= Len(ans) THEN ans[i] ELSE Unanswered

WakeupRetries == 3
WakeupDelay == 2000
WakeupTimeout == 30000

\* iteration i of the loop of wakeUpServer, and those after it
RECURSIVE wakeUpLoop(_, _, _, _)
wakeUpLoop(i, maxRetries, delay, ans) ==
  LET x == fetchWithTimeout(API_URL \o "/wakeup",
                            [method |-> "GET",
                             headers |-> ("Accept" :> "application/json")],
                            WakeupTimeout, RawAt(ans, i + 1))
      wait == IF i < maxRetries - 1
              THEN <<[op |-> "setTimeout", ms |-> delay, after |-> i + 1]>>
              ELSE <<>>
      rest == wakeUpLoop(i + 1, maxRetries, delay, ans)
  IN  IF i >= maxRetries
      THEN [out |-> Return(Bool(FALSE)), net |-> <<>>, io |-> <<>>]
      ELSE IF InFlight(x) THEN [out |-> Pending, net |-> <<x>>, io |-> <<>>]
      ELSE IF ~Threw(x) /\ ok(x.res[2])
        THEN [out |-> Return(Bool(TRUE)), net |-> <<x>>, io |-> <<>>]
      ELSE [out |-> rest.out, net |-> <<x>> \o rest.net, io |-> wait \o rest.io]

wakeUpServer(maxRetries, delay, ans) == wakeUpLoop(0, maxRetries, delay, ans)

\* faulty variant: no directory fetch when the server did not wake up
fetchDevicesWithWakeup_GiveUp(ans) ==
  LET w == wakeUpServer(WakeupRetries, WakeupDelay, ans)
      d == fetchDevices(RawAt(ans, Len(w.net) + 1))
  IN  IF w.out = Pending THEN w
      ELSE IF w.out = Return(Bool(FALSE))
        THEN [out |-> Return(DevicesResult(FALSE, <<>>)), net |-> w.net,
              io |-> w.io]
      ELSE [out |-> d.out, net |-> w.net \o d.net, io |-> w.io]

fetchDevicesWithWakeup(ans) ==
  LET w == wakeUpServer(WakeupRetries, WakeupDelay, ans)
      d == fetchDevices(RawAt(ans, Len(w.net) + 1))
  IN  IF w.out = Pending THEN w
      ELSE [out |-> d.out, net |-> w.net \o d.net, io |-> w.io]

\* faulty variant: the request is issued for an empty device id as well
fetchDeviceDetails_NoIdCheck(deviceId, raw) ==
  LET x == fetchWithTimeout(API_URL \o "/devices/" \o deviceId, NoOptions,
                            DefaultTimeout, raw)
      response == x.res[2]
      parsed == json(response)
      data == parsed[2]
  IN  [net |-> <<x>>,
       out |->
         IF InFlight(x) THEN Pending
         ELSE IF Threw(x) THEN x.res
         ELSE IF ~ok(response) THEN Throw(HttpError(response))
         ELSE IF ~parsed[1] THEN Throw(SyntaxError)
         ELSE IF Nullish(data) THEN Throw(TypeError)
         ELSE IF Falsy(Get(data, "success")) \/ Falsy(Get(data, "device"))
           THEN Throw(InvalidFormat)
         ELSE Return(Obj([success |-> Bool(TRUE),
                          device |-> Get(data, "device")]))]

fetchDeviceDetails(deviceId, raw) ==
  LET x == fetchWithTimeout(API_URL \o "/devices/" \o deviceId, NoOptions,
                            DefaultTimeout, raw)
      response == x.res[2]
      parsed == json(response)
      data == parsed[2]
  IN  IF deviceId = ""
      THEN [out |-> Throw(Err("Error", "Device ID is required")), net |-> <<>>]
      ELSE [net |-> <<x>>,
            out |->
              IF InFlight(x) THEN Pending
              ELSE IF Threw(x) THEN x.res
              ELSE IF ~ok(response) THEN Throw(HttpError(response))
              ELSE IF ~parsed[1] THEN Throw(SyntaxError)
              ELSE IF Nullish(data) THEN Throw(TypeError)
              ELSE IF Falsy(Get(data, "success")) \/ Falsy(Get(data, "device"))
                THEN Throw(InvalidFormat)
              ELSE Return(Obj([success |-> Bool(TRUE),
                               device |-> Get(data, "device")]))]

----------------------------------------------------------------------------
(* Relay components: the single-relay RelayWidget and the four-relay       *)
(* RelayControl panel.  One component instance is studied at a time; the   *)
(* instances of a screen share nothing but the Credential Store, where     *)
(* each writes the same token.                                             *)

NoComponent == [comp |-> "none"]

relayKey(relayNumber) == "relay" \o ToString(relayNumber)

\* err.message || fallback
errorMessage(err, fallback) == OrElse(Str(err[3]), Str(fallback))

\* the state a toggle asks for when the component shows state shown
toggled(shown) == IF shown = Str("on") THEN "off" ELSE "on"

\* a request in flight, answered as raw
answered(req, raw) ==
  fetch(req.url,
        [method |-> req.method, headers |-> req.headers, body |-> req.body],
        raw)

\* a handler h of the component waits for the answer to request req
Flight(h, req) == [h |-> h, req |-> req]

\* useState initial values of RelayWidget; reported collects the states
\* that responses of the backend have carried for the relay of the widget
widgetMounted(relayNumber) ==
  [comp |-> "widget", relayNumber |-> relayNumber, relayState |-> Str("off"),
   loading |-> FALSE, error |-> Null, initializing |-> TRUE,
   flights |-> <<>>, done |-> <<>>, reported |-> {}]

\* the states that the response returned as out carries for the relay of w
reportedBy(w, out) ==
  {Get(Get(out[2], "relays"), relayKey(w.relayNumber))} \ {Undefined}

\* init of RelayWidget, from the outcome out of getRelayStatus on
widgetInit(w, out) ==
  IF out[1] = "return"
  THEN [w EXCEPT !.relayState = Get(Get(out[2], "relays"),
                                    relayKey(w.relayNumber)),
                 !.initializing = FALSE,
                 !.done = <<"init", out>>,
                 !.reported = @ \cup reportedBy(w, out)]
  ELSE [w EXCEPT !.error = errorMessage(out[2], "Failed to fetch relay status"),
                 !.initializing = FALSE,
                 !.done = <<"init", out>>]

\* faulty variant: the new state is shown before the backend confirms
widgetToggleStart_Optimistic(w) ==
  [w EXCEPT !.loading = TRUE, !.error = Null,
            !.relayState = Str(toggled(w.relayState))]

\* toggleRelay of RelayWidget, up to the call of controlRelay
widgetToggleStart(w) == [w EXCEPT !.loading = TRUE, !.error = Null]

\* toggleRelay of RelayWidget, from the outcome out of controlRelay on
widgetToggleDone(w, out) ==
  IF out[1] = "return"
  THEN [w EXCEPT !.relayState = Get(Get(out[2], "relays"),
                                    relayKey(w.relayNumber)),
                 !.loading = FALSE,
                 !.done = <<"toggle", out>>,
                 !.reported = @ \cup reportedBy(w, out)]
  ELSE [w EXCEPT !.error = errorMessage(out[2], "Failed to control relay"),
                 !.loading = FALSE,
                 !.done = <<"toggle", out>>]

\* useState initial values of RelayControl
panelMounted ==
  [comp |-> "panel", relayStates |-> Null, loading |-> Null, error |-> Null,
   initializing |-> TRUE, flights |-> <<>>, done |-> <<>>]

\* init of RelayControl, from the outcome out of getRelayStatus on
panelInit(p, out) ==
  IF out[1] = "return"
  THEN [p EXCEPT !.relayStates = Get(out[2], "relays"),
                 !.initializing = FALSE,
                 !.done = <<"init", out>>]
  ELSE [p EXCEPT !.error = errorMessage(out[2], "Failed to fetch relay status"),
                 !.initializing = FALSE,
                 !.done = <<"init", out>>]

\* toggleRelay of RelayControl, up to the call of controlRelay
panelToggleStart(p, relayNumber) ==
  [p EXCEPT !.loading = Num(relayNumber), !.error = Null]

\* toggleRelay of RelayControl, from the outcome out of controlRelay on
panelToggleDone(p, out) ==
  IF out[1] = "return"
  THEN [p EXCEPT !.relayStates = Get(out[2], "relays"),
                 !.loading = Null,
                 !.done = <<"toggle", out>>]
  ELSE [p EXCEPT !.error = errorMessage(out[2], "Failed to control relay"),
                 !.loading = Null,
                 !.done = <<"toggle", out>>]

----------------------------------------------------------------------------
(* Sensor detail screen: loadData, run once on mount and then by a         *)
(* repeating timer                                                         *)

\* limit = 100, the default of fetchHistoryData
DefaultLimit == 100

\* useState initial values of SensorDetailScreen; authToken is the token of
\* the navigation parameters, empty when there is none
screenMounted(authToken) ==
  [comp |-> "screen", authToken |-> authToken, sensorData |-> Null,
   loading |-> TRUE, lastUpdated |-> Null, historyData |-> Arr(<<>>),
   cycles |-> <<>>, started |-> 0, lastOk |-> <<>>, maxOk |-> 0,
   mounted |-> TRUE, interval |-> "none", left |-> 0, cached |-> Null,
   kept |-> Null]

\* setInterval(() => loadData(false), 3000) of the effect
setInterval(s) == [s EXCEPT !.interval = "set"]

\* faulty variant: the cleanup of the effect leaves the timer running
clearInterval_Noop(s) == s

\* clearInterval(interval), the cleanup of the effect
clearInterval(s) == [s EXCEPT !.interval = "cleared"]

\* a run of loadData that waits for the network: the service call it
\* awaits and what has happened to the requests of that call so far
Cycle(id, showSpinner, fn, args) ==
  [id |-> id, showSpinner |-> showSpinner,
   call |-> [fn |-> fn, args |-> args, works |-> TRUE], answers |-> <<>>]

\* loadData up to the call of fetchLatestData
loadDataStart(s, deviceId, showSpinner) ==
  [s EXCEPT !.loading = IF showSpinner THEN TRUE ELSE @,
            !.started = @ + 1,
            !.cycles = Append(@, Cycle(s.started + 1, showSpinner,
                                       "fetchLatestData", <<deviceId>>))]

\* faulty variant: a reading on display is not replaced
onLatest_KeepFirst(s, result, t) ==
  IF Truthy(Get(result, "success")) /\ s.sensorData = Null
  THEN [s EXCEPT !.sensorData = Get(result, "data"), !.lastUpdated = Num(t)]
  ELSE s

\* faulty variant: a failed result empties the display
onLatest_ClearOnFailure(s, result, t) ==
  IF Truthy(Get(result, "success"))
  THEN [s EXCEPT !.sensorData = Get(result, "data"), !.lastUpdated = Num(t)]
  ELSE [s EXCEPT !.sensorData = Null, !.lastUpdated = Null]

\* loadData on the result of fetchLatestData, at time t
onLatest(s, result, t) ==
  IF Truthy(Get(result, "success"))
  THEN [s EXCEPT !.sensorData = Get(result, "data"), !.lastUpdated = Num(t)]
  ELSE s

\* loadData on the result of fetchHistoryData
onHistory(s, history) ==
  IF Truthy(Get(history, "success")) /\ Len(Get(history, "data")[2]) > 0
  THEN [s EXCEPT !.historyData = Get(history, "data")]
  ELSE s

\* the finally block of loadData
loadDataEnd(s, showSpinner) ==
  [s EXCEPT !.loading = IF showSpinner THEN FALSE ELSE @]

----------------------------------------------------------------------------
(* Device list screen: loadDevices and the press of a device *)

\* the route on display: the device list, or the sensor detail screen with
\* its navigation parameters
DevicesRoute == <<"Devices">>
SensorDetailRoute(params) == <<"SensorDetail", params>>

\* useState initial value of DevicesScreen
devicesMounted ==
  [comp |-> "devices", devices |-> Arr(<<>>), error |-> Null,
   loading |-> TRUE, refreshing |-> FALSE, flights |-> <<>>,
   route |-> DevicesRoute, pressed |-> Null]

\* loadDevices up to the call of fetchDevices, whose request is req
loadDevicesStart(s, isRefreshing, req) ==
  [s EXCEPT !.loading = ~isRefreshing, !.refreshing = isRefreshing,
            !.error = Null,
            !.flights = Append(@, Flight("loadDevices", req))]

\* loadDevices from the outcome out of fetchDevices on
loadDevicesDone(s, out) ==
  IF out[1] = "throw"
  THEN [s EXCEPT !.devices = Arr(<<>>),
                 !.error = errorMessage(out[2], "Failed to fetch devices"),
                 !.loading = FALSE, !.refreshing = FALSE]
  ELSE IF Truthy(Get(out[2], "success"))
  THEN [s EXCEPT !.devices = Get(out[2], "devices"), !.error = Null,
                 !.loading = FALSE, !.refreshing = FALSE]
  ELSE [s EXCEPT !.devices = Arr(<<>>),
                 !.error = Str("Failed to fetch devices"),
                 !.loading = FALSE, !.refreshing = FALSE]

\* faulty variant: a device without a token is navigated to as well
handleDevicePress_NoTokenCheck(s, device) ==
  IF Falsy(Get(device, "deviceId")) THEN s
  ELSE [s EXCEPT !.route = SensorDetailRoute(
                   Obj([deviceId |-> Get(device, "deviceId"),
                        name |-> Get(device, "name"),
                        location |-> Get(device, "location"),
                        authToken |-> Get(device, "authToken")]))]

handleDevicePress(s, device) ==
  IF Falsy(Get(device, "deviceId")) THEN s
  ELSE IF Falsy(Get(device, "authToken")) THEN s
  ELSE [s EXCEPT !.route = SensorDetailRoute(
                   Obj([deviceId |-> Get(device, "deviceId"),
                        name |-> Get(device, "name"),
                        location |-> Get(device, "location"),
                        authToken |-> Get(device, "authToken")]))]

----------------------------------------------------------------------------
(* Inputs of the model: arguments of the calls and answers of the backend *)

DeviceIds == {"D1", "D2"}
\* the empty string stands for a missing device id
MaybeDeviceIds == DeviceIds \cup {""}
Tokens == {"tok123", "tok456"}
Limits == {1, 5}
Temperatures == {-41, -40, 25, 80, 81}
Percentages == {-1, 0, 100, 101}
RelayNumbers == 1..4
RelayStates == {"on", "off"}

R1 ==
  Obj([temperature |-> Num(21), humidity |-> Num(40), soilMoisture |-> Num(30),
       distance |-> Num(120), timestamp |-> Str("2025-06-01T10:00:00.000Z")])

\* a reading of a device without the ultrasonic sensor: no distance field
R2 ==
  Obj([temperature |-> Num(19), humidity |-> Num(55), soilMoisture |-> Num(62),
       timestamp |-> Str("2025-06-01T09:59:57.000Z")])

LatestBodies ==
  { Unparseable, Null,
    Obj([success |-> Bool(FALSE)]),
    Obj([success |-> Bool(TRUE)]),
    Obj([success |-> Bool(TRUE), data |-> R1]),
    Obj([success |-> Bool(TRUE), data |-> R2]) }

HistoryBodies ==
  { Unparseable,
    Obj([success |-> Bool(FALSE), data |-> Arr(<<R1>>)]),
    Obj([success |-> Bool(TRUE), data |-> R1]),
    Obj([success |-> Bool(TRUE), data |-> Arr(<<>>)]),
    Obj([success |-> Bool(TRUE), data |-> Arr(<<R1>>)]),
    Obj([success |-> Bool(TRUE), data |-> Arr(<<R2, R1>>)]),
    Obj([success |-> Bool(TRUE), data |-> Arr(<<Null>>)]) }

SentBodies ==
  { Unparseable, Null,
    Obj([success |-> Bool(FALSE), data |-> R1]),
    Obj([success |-> Bool(TRUE)]),
    Obj([success |-> Bool(TRUE),
         data |-> Obj([deviceId |-> Str("D1"), temperature |-> Num(80),
                       humidity |-> Num(0), soilMoisture |-> Num(100),
                       timestamp |-> Str("2025-06-01T10:00:00.000Z")])]) }

Relays(r1, r2, r3, r4) ==
  Obj([relay1 |-> Str(r1), relay2 |-> Str(r2), relay3 |-> Str(r3),
       relay4 |-> Str(r4)])

RelayBodies ==
  { Unparseable, Null,
    Obj([success |-> Bool(FALSE), deviceId |-> Str("D1"),
         relays |-> Relays("off", "off", "off", "off")]),
    Obj([success |-> Bool(TRUE), relays |-> Relays("on", "off", "off", "off")]),
    Obj([success |-> Bool(TRUE), deviceId |-> Str("D1")]),
    Obj([success |-> Bool(TRUE), deviceId |-> Str("D1"),
         relays |-> Relays("on", "off", "off", "off")]),
    Obj([success |-> Bool(TRUE), deviceId |-> Str("D1"),
         relays |-> Relays("off", "on", "off", "on")]),
    Obj([success |-> Bool(TRUE), deviceId |-> Str("D1"),
         relays |-> Relays("off", "on", "on", "off"),
         updatedAt |-> Str("2025-06-01T10:00:00.000Z")]),
    Obj([success |-> Bool(TRUE), deviceId |-> Str("D1"),
         relays |-> Obj([relay1 |-> Str("on")])]) }

Dev1 ==
  Obj([_id |-> Str("665f00000000000000000001"), deviceId |-> Str("D1"),
       name |-> Str("Greenhouse"), location |-> Str("North"),
       createdAt |-> Str("2025-05-01T08:00:00.000Z"),
       authToken |-> Str("tok123")])

\* a device in the backend's alternate encoding
Dev2 ==
  Obj([_id |-> Obj("$oid" :> Str("665f00000000000000000002")),
       deviceId |-> Str("D2"), name |-> Str("Tank"),
       location |-> Str("Roof"),
       lastSeen |-> Str("2025-06-01T09:00:00.000Z"),
       auth_token |-> Str("tok456")])

DeviceBodies ==
  { Unparseable, Null,
    Obj([success |-> Bool(FALSE), devices |-> Arr(<<Dev1>>)]),
    Obj([success |-> Bool(TRUE), devices |-> Dev1]),
    Obj([success |-> Bool(TRUE), devices |-> Arr(<<>>)]),
    Obj([success |-> Bool(TRUE), devices |-> Arr(<<Dev1, Dev2>>)]),
    Obj([success |-> Bool(TRUE), devices |-> Arr(<<Dev1, Null>>)]) }

\* the body of a /wakeup response is not read
WakeBodies == {Unparseable}

Details1 ==
  Obj([deviceId |-> Str("D1"), authToken |-> Str("tok123"),
       name |-> Str("Greenhouse"), location |-> Str("North"),
       lastSeen |-> Str("2025-06-01T09:00:00.000Z")])

DetailBodies ==
  { Unparseable, Null,
    Obj([success |-> Bool(FALSE), device |-> Details1]),
    Obj([success |-> Bool(TRUE)]),
    Obj([success |-> Bool(TRUE), device |-> Details1]) }

Statuses == {200, 201, 404, 500}

\* how the network can settle a request whose 200 answers are in bodies
RawAnswers(bodies, sample) ==
  {NetError}
    \cup {Response(200, b) : b \in bodies}
    \cup {Response(st, b) : st \in Statuses \ {200}, b \in {Unparseable, sample}}

----------------------------------------------------------------------------
(* The state machine: a client that makes one call at a time.  A call runs *)
(* until it awaits a request in flight; the network then settles the       *)
(* request, or the request's abort timer fires, and the call runs on.      *)

NoCall == [fn |-> "none", args |-> <<>>, works |-> TRUE]

\* the function call c, run on the store st with the requests it has issued
\* in the states ans, at time t: its outcome so far, its exchanges, its
\* storage operations
Run(c, st, ans, t) ==
  LET raw(i) == IF i <= Len(ans) THEN ans[i] ELSE Unanswered
      a == c.args
      sensor(r) == [out |-> r.out, net |-> r.net, io |-> <<>>]
  IN  CASE c.fn = "fetchDevices" -> sensor(fetchDevices(raw(1)))
        [] c.fn = "fetchDevicesWithWakeup" -> fetchDevicesWithWakeup(ans)
        [] c.fn = "fetchHistoryData" ->
             sensor(fetchHistoryData(a[1], a[2], raw(1)))
        [] c.fn = "fetchLatestData" ->
             sensor(fetchLatestData(a[1], raw(1), raw(2), t))
        [] c.fn = "sendSensorData" ->
             sensor(sendSensorData(a[1], a[2], a[3], a[4], a[5], raw(1)))
        [] c.fn = "fetchDeviceDetails" ->
             sensor(fetchDeviceDetails(a[1], raw(1)))
        [] c.fn = "getRelayStatus" -> getRelayStatus(st, a[1], c.works, raw(1))
        [] c.fn = "controlRelay" ->
             controlRelay(st, a[1], a[2], a[3], c.works, raw(1))

\* the 200 bodies the backend may send to the n-th request of call c, and a
\* body it may send along with another status
BodiesFor(c, n) ==
  CASE c.fn = "fetchDevices" -> DeviceBodies
    [] c.fn = "fetchDevicesWithWakeup" ->
         IF net[n].req.url = API_URL \o "/wakeup" THEN WakeBodies
         ELSE DeviceBodies
    [] c.fn = "fetchHistoryData" -> HistoryBodies
    [] c.fn = "fetchLatestData" -> IF n = 1 THEN LatestBodies ELSE HistoryBodies
    [] c.fn = "sendSensorData" -> SentBodies
    [] c.fn = "fetchDeviceDetails" -> DetailBodies
    [] OTHER -> RelayBodies

SampleFor(c, n) ==
  CASE c.fn = "fetchDevicesWithWakeup" /\ net[n].req.url = API_URL \o "/wakeup" ->
         Unparseable
    [] c.fn \in {"fetchDevices", "fetchDevicesWithWakeup"} ->
         Obj([success |-> Bool(TRUE), devices |-> Arr(<<Dev1>>)])
    [] c.fn = "fetchHistoryData" \/ (c.fn = "fetchLatestData" /\ n = 2) ->
         Obj([success |-> Bool(TRUE), data |-> Arr(<<R1>>)])
    [] c.fn = "fetchLatestData" \/ c.fn = "sendSensorData" ->
         Obj([success |-> Bool(TRUE), data |-> R1])
    [] c.fn = "fetchDeviceDetails" ->
         Obj([success |-> Bool(TRUE), device |-> Details1])
    [] OTHER ->
         Obj([success |-> Bool(TRUE), deviceId |-> Str("D1"),
              relays |-> Relays("on", "off", "off", "off")])

Init ==
  /\ storage = [k \in {} |-> ""]
  /\ now = 0
  /\ pc = "idle"
  /\ call = NoCall
  /\ answers = <<>>
  /\ ret = Pending
  /\ net = <<>>
  /\ io = <<>>
  /\ ui = NoComponent

\* the client calls c: the function runs up to its first await of the network
Start(c) ==
  LET r == Run(c, storage, <<>>, now)
  IN  /\ pc = "idle"
      /\ call' = c
      /\ answers' = <<>>
      /\ ret' = r.out
      /\ net' = r.net
      /\ io' = r.io
      /\ pc' = IF r.out = Pending THEN "awaiting" ELSE "settled"
      /\ UNCHANGED <<storage, now, ui>>

\* the request in flight is in state raw from now on: the call runs on
Advance(raw) ==
  LET r == Run(call, storage, Append(answers, raw), now)
  IN  /\ pc = "awaiting"
      /\ answers' = Append(answers, raw)
      /\ ret' = r.out
      /\ net' = r.net
      /\ io' = r.io
      /\ pc' = IF r.out = Pending THEN "awaiting" ELSE "settled"
      /\ UNCHANGED <<storage, now, call, ui>>

CallFetchDevices ==
  Start([fn |-> "fetchDevices", args |-> <<>>, works |-> TRUE])

CallFetchDevicesWithWakeup ==
  Start([fn |-> "fetchDevicesWithWakeup", args |-> <<>>, works |-> TRUE])

CallFetchHistoryData ==
  \E deviceId \in MaybeDeviceIds, limit \in Limits :
    Start([fn |-> "fetchHistoryData", args |-> <<deviceId, limit>>,
           works |-> TRUE])

CallFetchLatestData ==
  \E deviceId \in MaybeDeviceIds :
    Start([fn |-> "fetchLatestData", args |-> <<deviceId>>, works |-> TRUE])

CallSendSensorData ==
  \E deviceId \in DeviceIds, temperature \in Temperatures,
     humidity \in Percentages, soilMoisture \in Percentages,
     authToken \in Tokens :
    Start([fn |-> "sendSensorData",
           args |-> <<deviceId, temperature, humidity, soilMoisture, authToken>>,
           works |-> TRUE])

CallFetchDeviceDetails ==
  \E deviceId \in MaybeDeviceIds :
    Start([fn |-> "fetchDeviceDetails", args |-> <<deviceId>>, works |-> TRUE])

CallGetRelayStatus ==
  \E deviceId \in DeviceIds, works \in BOOLEAN :
    Start([fn |-> "getRelayStatus", args |-> <<deviceId>>, works |-> works])

CallControlRelay ==
  \E deviceId \in DeviceIds, relayNumber \in RelayNumbers,
     state \in RelayStates, works \in BOOLEAN :
    Start([fn |-> "controlRelay", args |-> <<deviceId, relayNumber, state>>,
           works |-> works])

\* the credential store does not use the network: its calls settle at once
CallStoreAuthToken ==
  \E deviceId \in DeviceIds, token \in Tokens, works \in BOOLEAN :
    LET r == storeAuthToken(storage, deviceId, token, works)
    IN  /\ pc = "idle"
        /\ call' = [fn |-> "storeAuthToken", args |-> <<deviceId, token>>,
                    works |-> works]
        /\ storage' = r.st
        /\ ret' = r.out
        /\ io' = r.io
        /\ pc' = "settled"
        /\ UNCHANGED <<now, answers, net, ui>>

CallGetAuthToken ==
  \E deviceId \in DeviceIds, works \in BOOLEAN :
    LET r == getAuthToken(storage, deviceId, works)
    IN  /\ pc = "idle"
        /\ call' = [fn |-> "getAuthToken", args |-> <<deviceId>>,
                    works |-> works]
        /\ ret' = r.out
        /\ io' = r.io
        /\ pc' = "settled"
        /\ UNCHANGED <<storage, now, answers, net, ui>>

\* the network settles the request in flight
Deliver ==
  /\ pc = "awaiting"
  /\ \E raw \in RawAnswers(BodiesFor(call, Len(answers) + 1),
                           SampleFor(call, Len(answers) + 1)) :
       Advance(raw)

\* the abort timer of the request in flight fires (api.ts:97)
TimerFires ==
  /\ pc = "awaiting"
  /\ net[Len(net)].timer = "armed"
  /\ Advance(TimerFired)

\* the caller's continuation takes the outcome and is ready for the next call
Resume ==
  /\ pc = "settled"
  /\ pc' = "idle"
  /\ call' = NoCall
  /\ answers' = <<>>
  /\ ret' = Pending
  /\ net' = <<>>
  /\ io' = <<>>
  /\ UNCHANGED <<storage, now, ui>>

\* time passes, except while the caller holds an outcome it has not taken
Tick ==
  /\ pc # "settled"
  /\ now < MaxTime
  /\ now' = now + 1
  /\ UNCHANGED <<storage, pc, call, answers, ret, net, io, ui>>

Next ==
  \/ CallFetchDevices
  \/ CallFetchHistoryData
  \/ CallFetchLatestData
  \/ CallSendSensorData
  \/ CallFetchDeviceDetails
  \/ CallStoreAuthToken
  \/ CallGetAuthToken
  \/ CallGetRelayStatus
  \/ CallControlRelay
  \/ Deliver
  \/ TimerFires
  \/ Resume
  \/ Tick

Spec == Init /\ [][Next]_vars

----------------------------------------------------------------------------
(* Relay components: mounting, pressing a toggle button, answers *)

\* the props the screen passes to its relay components
PropDeviceId == "D1"
PropAuthToken == "tok123"

RelaySample ==
  Obj([success |-> Bool(TRUE), deviceId |-> Str("D1"),
       relays |-> Relays("on", "off", "off", "off")])

Service == <<now, pc, call, answers, ret, net, io>>

\* a component c is mounted: its effect stores the token, then asks for the
\* relay status
Mount(c) ==
  \E works \in BOOLEAN :
    LET s == storeAuthToken(storage, PropDeviceId, PropAuthToken, works)
        r == getRelayStatus(s.st, PropDeviceId, works, Unanswered)
    IN  /\ ui = NoComponent
        /\ storage' = s.st
        /\ ui' = IF r.out = Pending
                 THEN [c EXCEPT !.flights = <<Flight("init", r.net[1].req)>>]
                 ELSE IF c.comp = "widget" THEN widgetInit(c, r.out)
                 ELSE panelInit(c, r.out)
        /\ UNCHANGED Service

MountWidget ==
  \E relayNumber \in RelayNumbers : Mount(widgetMounted(relayNumber))

MountPanel == Mount(panelMounted)

\* the toggle button of the widget is pressed; it is rendered once
\* initializing is over and disabled while loading
WidgetPress ==
  \E works \in BOOLEAN :
    LET w == widgetToggleStart(ui)
        r == controlRelay(storage, PropDeviceId, ui.relayNumber,
                          toggled(ui.relayState), works, Unanswered)
    IN  /\ ui.comp = "widget"
        /\ ~ui.initializing
        /\ ~ui.loading
        /\ ui' = IF r.out = Pending
                 THEN [w EXCEPT !.flights = Append(@, Flight("toggle", r.net[1].req))]
                 ELSE widgetToggleDone(w, r.out)
        /\ UNCHANGED <<storage, Service>>

\* the button of relay relayNumber of the panel is pressed; the buttons are
\* rendered once initializing is over and relayStates is set, and the
\* button of the relay that loading names is disabled
PanelPress ==
  \E relayNumber \in RelayNumbers, works \in BOOLEAN :
    LET p == panelToggleStart(ui, relayNumber)
        r == controlRelay(storage, PropDeviceId, relayNumber,
                          toggled(Get(ui.relayStates, relayKey(relayNumber))),
                          works, Unanswered)
    IN  /\ ui.comp = "panel"
        /\ ~ui.initializing
        /\ Truthy(ui.relayStates)
        /\ ui.loading # Num(relayNumber)
        /\ Len(ui.flights) < MaxFlights
        /\ ui' = IF r.out = Pending
                 THEN [p EXCEPT !.flights = Append(@, Flight("toggle", r.net[1].req))]
                 ELSE panelToggleDone(p, r.out)
        /\ UNCHANGED <<storage, Service>>

Without(flights, i) ==
  [j \in 1..(Len(flights) - 1) |-> IF j < i THEN flights[j] ELSE flights[j + 1]]

\* the backend answers, or the connection fails for, a request in flight
\* of the mounted component: the handler that waits for it runs on
Answer ==
  /\ ui.comp \in {"widget", "panel"}
  /\ \E i \in 1..Len(ui.flights), raw \in RawAnswers(RelayBodies, RelaySample) :
       LET f == ui.flights[i]
           out == relayOutcome(answered(f.req, raw))
           c == [ui EXCEPT !.flights = Without(@, i)]
       IN  ui' = CASE ui.comp = "widget" /\ f.h = "init" -> widgetInit(c, out)
                   [] ui.comp = "widget" -> widgetToggleDone(c, out)
                   [] f.h = "init" -> panelInit(c, out)
                   [] OTHER -> panelToggleDone(c, out)
  /\ UNCHANGED <<storage, Service>>

NextRelayUI ==
  \/ MountWidget
  \/ MountPanel
  \/ WidgetPress
  \/ PanelPress
  \/ Answer

SpecRelayUI == Init /\ [][NextRelayUI]_vars

----------------------------------------------------------------------------
(* Sensor detail screen: mounting, the repeating timer, answers *)

\* the token of the navigation parameters: present or not
ParamTokens == {"", "tok123"}

\* loadData(showSpinner) is called on screen s: the token of the
\* navigation parameters is stored, then the latest reading is asked for
LoadData(s, showSpinner) ==
  \E works \in IF s.authToken # "" THEN BOOLEAN ELSE {TRUE} :
    LET r == storeAuthToken(storage, PropDeviceId, s.authToken, works)
    IN  /\ storage' = IF s.authToken # "" THEN r.st ELSE storage
        /\ io' = IF s.authToken # "" THEN r.io ELSE io
        /\ ui' = loadDataStart(s, PropDeviceId, showSpinner)
        /\ UNCHANGED <<now, pc, call, answers, ret, net>>

\* the token that the store holds for deviceId, null when it holds none
Cached(st, deviceId) == getItem(st, TokenKey(deviceId), TRUE).res[2]

\* an earlier visit of the screen, with another token in its navigation
\* parameters, has left that token in the store
EarlierVisit ==
  /\ ui = NoComponent
  /\ Cached(storage, PropDeviceId) = Null
  /\ storage' = storeAuthToken(storage, PropDeviceId, "tok456", TRUE).st
  /\ UNCHANGED <<ui, Service>>

\* the screen is mounted: the effect runs loadData(true) and sets the timer
MountScreen ==
  /\ ui = NoComponent
  /\ \E authToken \in ParamTokens :
       LoadData([setInterval(screenMounted(authToken))
                   EXCEPT !.cached = Cached(storage, PropDeviceId)], TRUE)

\* the repeating timer fires: loadData(false), whatever is in flight
IntervalFires ==
  /\ ui.comp = "screen"
  /\ ui.interval = "set"
  /\ ui.started < MaxCycles
  /\ LoadData(ui, FALSE)

\* the screen is torn down: the cleanup of the effect runs; left counts the
\* cycles in flight at that moment
Unmount ==
  /\ ui.comp = "screen"
  /\ ui.mounted
  /\ ui' = [clearInterval(ui) EXCEPT !.mounted = FALSE,
                                     !.left = Len(ui.cycles)]
  /\ UNCHANGED <<storage, Service>>

\* the request in flight of cycle i is in state raw from now on: the
\* service call runs on, and when it returns loadData runs on to its next
\* await or to its end
CycleAdvance(i, raw) ==
  LET c == ui.cycles[i]
      ans == Append(c.answers, raw)
      out == Run(c.call, storage, ans, now).out
      result == out[2]
      others == [ui EXCEPT !.cycles = Without(@, i)]
      history == Cycle(c.id, c.showSpinner, "fetchHistoryData",
                       <<PropDeviceId, DefaultLimit>>)
      succeeded == out[1] = "return" /\ Truthy(Get(result, "success"))
      Max(a, b) == IF a > b THEN a ELSE b
      latest == [onLatest(ui, result, now)
                   EXCEPT !.cycles[i] = history,
                          !.lastOk = IF succeeded
                                     THEN <<c.id, Get(result, "data")>>
                                     ELSE @,
                          !.maxOk = IF succeeded THEN Max(@, c.id) ELSE @,
                          !.kept = IF ~succeeded /\ ui.sensorData # Null
                                   THEN ui.sensorData ELSE @]
  IN  /\ ui' = CASE out = Pending -> [ui EXCEPT !.cycles[i].answers = ans]
                  [] out[1] = "throw" -> loadDataEnd(others, c.showSpinner)
                  [] c.call.fn = "fetchLatestData" -> latest
                  [] OTHER -> loadDataEnd(onHistory(others, result),
                                          c.showSpinner)
      /\ UNCHANGED <<storage, Service>>

\* answers of the backend to the n-th request of service call c of a cycle
ScreenAnswers(c, n) ==
  IF c.fn = "fetchLatestData" /\ n = 1
  THEN { Response(200, Obj([success |-> Bool(TRUE), data |-> R1])),
         Response(200, Obj([success |-> Bool(TRUE), data |-> R2])),
         Response(200, Obj([success |-> Bool(FALSE)])),
         Response(404, Unparseable),
         NetError }
  ELSE { Response(200, Obj([success |-> Bool(TRUE), data |-> Arr(<<R1>>)])),
         Response(200, Obj([success |-> Bool(TRUE), data |-> Arr(<<>>)])) }

\* the network settles the request in flight of a cycle
CycleDeliver ==
  /\ ui.comp = "screen"
  /\ \E i \in 1..Len(ui.cycles) :
       \E raw \in ScreenAnswers(ui.cycles[i].call,
                                Len(ui.cycles[i].answers) + 1) :
         CycleAdvance(i, raw)

\* the abort timer of the request in flight of a cycle fires
CycleTimerFires ==
  /\ ui.comp = "screen"
  /\ \E i \in 1..Len(ui.cycles) : CycleAdvance(i, TimerFired)

NextScreen ==
  \/ MountScreen
  \/ IntervalFires
  \/ CycleDeliver
  \/ CycleTimerFires
  \/ Tick

SpecScreen == Init /\ [][NextScreen]_vars

\* the life of the screen from an earlier visit to its teardown
NextScreenLife ==
  \/ EarlierVisit
  \/ MountScreen
  \/ IntervalFires
  \/ Unmount
  \/ CycleDeliver
  \/ CycleTimerFires

SpecScreenLife == Init /\ [][NextScreenLife]_vars

----------------------------------------------------------------------------
(* Device list screen: mounting, refresh and retry, presses, answers *)

\* a device registered without a token, and one without a device id
Dev3 ==
  Obj([_id |-> Str("665f00000000000000000003"), deviceId |-> Str("D3"),
       name |-> Str("Shed"), location |-> Str("East"),
       createdAt |-> Str("2025-05-03T08:00:00.000Z")])

Dev4 ==
  Obj([_id |-> Str("665f00000000000000000004"), name |-> Str("Spare"),
       location |-> Str("Store"),
       createdAt |-> Str("2025-05-04T08:00:00.000Z"),
       authToken |-> Str("tok789")])

DeviceLists ==
  {<<>>, <<Dev1>>, <<Dev2>>, <<Dev1, Dev2>>, <<Dev3, Dev1>>, <<Dev4, Dev2>>,
   <<Dev3, Dev4>>, <<Dev2, Dev1>>, <<Dev1, Dev2, Dev3>>}

\* answers of the backend to the request of the device list screen
DeviceListAnswers ==
  {NetError, Response(500, Unparseable)}
    \cup {Response(200, Obj([success |-> Bool(TRUE), devices |-> Arr(l)])) :
            l \in DeviceLists}

\* loadDevices(isRefreshing) is called on screen s
LoadDevices(s, isRefreshing) ==
  /\ ui' = loadDevicesStart(s, isRefreshing,
                            fetchDevices(Unanswered).net[1].req)
  /\ UNCHANGED <<storage, Service>>

\* the list is on display: not the spinner, not the error view, and the
\* screen is on top
ListShown ==
  /\ ui.comp = "devices"
  /\ ui.route = DevicesRoute
  /\ ~ui.loading
  /\ Falsy(ui.error)

\* the screen is mounted: the effect runs loadDevices()
MountDevices ==
  /\ ui = NoComponent
  /\ LoadDevices(devicesMounted, FALSE)

\* pull to refresh, offered while no refresh is running
PullRefresh ==
  /\ ListShown
  /\ ~ui.refreshing
  /\ LoadDevices(ui, TRUE)

\* the retry button of the error view
Retry ==
  /\ ui.comp = "devices"
  /\ ui.route = DevicesRoute
  /\ ~ui.loading
  /\ Truthy(ui.error)
  /\ LoadDevices(ui, FALSE)

\* the request of a loadDevices in progress is in state raw from now on
DevicesAdvance(raw) ==
  /\ ui.comp = "devices"
  /\ \E i \in 1..Len(ui.flights) :
       ui' = loadDevicesDone([ui EXCEPT !.flights = Without(@, i)],
                             fetchDevices(raw).out)
  /\ UNCHANGED <<storage, Service>>

DevicesDeliver == \E raw \in DeviceListAnswers : DevicesAdvance(raw)

DevicesTimerFires == DevicesAdvance(TimerFired)

\* an item of the list is pressed; renderDeviceItem renders no item for a
\* device without deviceId
PressDevice ==
  /\ ListShown
  /\ \E i \in 1..Len(ui.devices[2]) :
       /\ Truthy(Get(ui.devices[2][i], "deviceId"))
       /\ ui' = handleDevicePress([ui EXCEPT !.pressed = ui.devices[2][i]],
                                  ui.devices[2][i])
  /\ UNCHANGED <<storage, Service>>

\* the user goes back from the sensor detail screen
GoBack ==
  /\ ui.comp = "devices"
  /\ ui.route # DevicesRoute
  /\ ui' = [ui EXCEPT !.route = DevicesRoute]
  /\ UNCHANGED <<storage, Service>>

NextDevices ==
  \/ MountDevices
  \/ PullRefresh
  \/ Retry
  \/ DevicesDeliver
  \/ DevicesTimerFires
  \/ PressDevice
  \/ GoBack

SpecDevices == Init /\ [][NextDevices]_vars

\* the device list loaded through the wake-up path
NextWakeup ==
  \/ CallFetchDevicesWithWakeup
  \/ Deliver
  \/ TimerFires
  \/ Resume
  \/ Tick

SpecWakeup == Init /\ [][NextWakeup]_vars

----------------------------------------------------------------------------
(* Properties *)

\* observations on the state of a request
Failed(raw) == raw \in {NetError, TimerFired}
Is2xx(raw) == raw[1] = "response" /\ raw[2] \in 200..299
BodyField(raw, f) ==
  IF raw[3][1] = "object" /\ f \in DOMAIN raw[3][2] THEN raw[3][2][f]
  ELSE Undefined

Success(v) == Get(v, "success") = Bool(TRUE)
Failure(v) == Get(v, "success") = Bool(FALSE)

Zeros(t) ==
  Obj([temperature |-> Num(0), humidity |-> Num(0), soilMoisture |-> Num(0),
       distance |-> Num(0), timestamp |-> toISOString(t)])

\* what getHistory(D, 1) returns when its request ends as the history
\* request of the current getLatest(D) call did
FallbackHistory == fetchHistoryData(call.args[1], 1, answers[2]).out[2]

FallbackReadings == Get(FallbackHistory, "data")[2]

HistoryUrl(deviceId, limit) ==
  API_URL \o "/devices/" \o deviceId \o "/history?limit=" \o ToString(limit)

\* C1: when /latest answers 404 and the history fetch yields no reading,
\* getLatest returns success:true with an all-zero reading stamped with the
\* current time.
C1_LatestNotFoundNoHistory ==
  ( /\ pc = "settled"
    /\ call.fn = "fetchLatestData"
    /\ Len(answers) = 2
    /\ answers[1][1] = "response"
    /\ answers[1][2] = 404
    /\ FallbackReadings = <<>> )
  => ret = Return(Obj([success |-> Bool(TRUE), data |-> Zeros(now)]))

C1_Witness ==
  /\ pc = "settled"
  /\ call = [fn |-> "fetchLatestData", args |-> <<"D1">>, works |-> TRUE]
  /\ answers[1] = Response(404, Unparseable)
  /\ answers[2] = NetError
  /\ now = 1
  /\ Get(ret[2], "data") = Zeros(1)

\* the primary /latest fetch failed: transport error, a status that is
\* neither 2xx nor 404, or a 2xx body that is not {success, data}
PrimaryFailed ==
  /\ Len(answers) >= 1
  /\ \/ Failed(answers[1])
     \/ answers[1][1] = "response" /\ ~Is2xx(answers[1]) /\ answers[1][2] # 404
     \/ Is2xx(answers[1])
        /\ \/ answers[1][3] = Unparseable
           \/ Falsy(BodyField(answers[1], "success"))
           \/ Falsy(BodyField(answers[1], "data"))

\* C2: when the primary fetch of getLatest fails, getHistory(D, 1) is
\* attempted; getLatest returns success:true with the first history entry if
\* there is one, and success:false with an all-zero reading otherwise.
C2_LatestFailureFallsBack ==
  (call.fn = "fetchLatestData" /\ PrimaryFailed)
  => /\ Len(net) = 2
     /\ net[2].req.url = HistoryUrl(call.args[1], 1)
     /\ net[2].req.method = "GET"
     /\ pc = "settled" =>
          IF FallbackReadings # <<>>
          THEN ret = Return(Obj([success |-> Bool(TRUE),
                                 data |-> FallbackReadings[1]]))
          ELSE ret = Return(Obj([success |-> Bool(FALSE), data |-> Zeros(now)]))

C2_Witness ==
  /\ pc = "settled"
  /\ call.fn = "fetchLatestData"
  /\ Len(answers) = 2
  /\ answers[1] = Response(500, Unparseable)
  /\ Is2xx(answers[2])
  /\ ret = Return(Obj([success |-> Bool(TRUE),
       data |-> Obj([temperature |-> Num(19), humidity |-> Num(55),
                     soilMoisture |-> Num(62), distance |-> Num(0),
                     timestamp |-> Str("2025-06-01T09:59:57.000Z")])]))

\* the single request of a listDevices or getHistory call failed: transport
\* error, error status, or a body of the wrong shape (list is the name of the
\* field that must hold an array)
ReadFailed(list) ==
  /\ Len(answers) = 1
  /\ \/ Failed(answers[1])
     \/ answers[1][1] = "response" /\ ~Is2xx(answers[1])
     \/ Is2xx(answers[1])
        /\ \/ answers[1][3] = Unparseable
           \/ Falsy(BodyField(answers[1], "success"))
           \/ BodyField(answers[1], list)[1] # "array"

\* C3: listDevices, getLatest and getHistory never throw; they report every
\* failure as success:false with an empty list or an all-zero reading.
C3_ReadsNeverThrow ==
  /\ (pc = "settled"
      /\ call.fn \in {"fetchDevices", "fetchLatestData", "fetchHistoryData"})
     => /\ ret[1] = "return"
        /\ Success(ret[2]) \/ Failure(ret[2])
  /\ (pc = "settled" /\ call.fn = "fetchDevices")
     => /\ ReadFailed("devices") => Failure(ret[2])
        /\ Failure(ret[2]) =>
             ret[2] = Obj([success |-> Bool(FALSE), count |-> Num(0),
                           devices |-> Arr(<<>>)])
  /\ (pc = "settled" /\ call.fn = "fetchHistoryData")
     => /\ (ReadFailed("data")
             /\ ~(answers[1][1] = "response" /\ answers[1][2] = 404))
             => Failure(ret[2])
        /\ Failure(ret[2]) =>
             ret[2] = Obj([success |-> Bool(FALSE), data |-> Arr(<<>>)])
  /\ (pc = "settled" /\ call.fn = "fetchLatestData")
     => /\ (PrimaryFailed /\ FallbackReadings = <<>>) => Failure(ret[2])
        /\ Failure(ret[2]) =>
             ret[2] = Obj([success |-> Bool(FALSE), data |-> Zeros(now)])

C3_Witness ==
  /\ pc = "settled"
  /\ call.fn = "fetchDevices"
  /\ answers = <<TimerFired>>
  /\ ret = Return(Obj([success |-> Bool(FALSE), count |-> Num(0),
                       devices |-> Arr(<<>>)]))

\* C4: getHistory(D, limit) on a 404 response returns {success:true, data:[]}
\* for every device and limit.
C4_History404IsEmpty ==
  ( /\ pc = "settled"
    /\ call.fn = "fetchHistoryData"
    /\ Len(answers) = 1
    /\ answers[1][1] = "response"
    /\ answers[1][2] = 404 )
  => ret = Return(Obj([success |-> Bool(TRUE), data |-> Arr(<<>>)]))

C4_Witness ==
  /\ pc = "settled"
  /\ call = [fn |-> "fetchHistoryData", args |-> <<"D2", 5>>, works |-> TRUE]
  /\ answers = <<Response(404, Unparseable)>>
  /\ net[1].req.url = HistoryUrl("D2", 5)
  /\ Success(ret[2])

InRange(a) ==
  /\ a[2] >= -40 /\ a[2] <= 80
  /\ a[3] >= 0 /\ a[3] <= 100
  /\ a[4] >= 0 /\ a[4] <= 100

\* C5: sendReading with a value out of range fails with a validation error
\* before any request is issued; the boundary values are accepted.
C5_SendValidates ==
  call.fn = "sendSensorData"
  => IF InRange(call.args)
     THEN Len(net) = 1
     ELSE /\ pc = "settled"
          /\ net = <<>>
          /\ answers = <<>>
          /\ ret[1] = "throw"
          /\ ret[2][2] = "Error"
          /\ ret[2][3] \in {"Temperature must be between -40C and 80C",
                            "Humidity must be between 0% and 100%",
                            "Soil moisture must be between 0% and 100%"}

C5_Witness ==
  /\ pc = "settled"
  /\ call.fn = "sendSensorData"
  /\ call.args[2] = 81 /\ call.args[3] = 0 /\ call.args[4] = 100
  /\ ret = Throw(Err("Error", "Temperature must be between -40C and 80C"))
  /\ net = <<>>

\* C6: for an in-range triple, one sendReading issues exactly one request: a
\* POST to /data whose body holds the given deviceId and values and whose
\* x-auth-token header is the given token; there is no second request
\* whatever the outcome.
C6_SendOnePost ==
  (call.fn = "sendSensorData" /\ InRange(call.args))
  => /\ Len(net) = 1
     /\ Len(answers) <= 1
     /\ net[1].req.method = "POST"
     /\ net[1].req.url = API_URL \o "/data"
     /\ "x-auth-token" \in DOMAIN net[1].req.headers
     /\ net[1].req.headers["x-auth-token"] = call.args[5]
     /\ net[1].req.body =
          JSONstringify(Obj([deviceId |-> Str(call.args[1]),
                             temperature |-> Num(call.args[2]),
                             humidity |-> Num(call.args[3]),
                             soilMoisture |-> Num(call.args[4])]))

C6_Witness ==
  /\ pc = "settled"
  /\ call.fn = "sendSensorData"
  /\ call.args = <<"D1", -40, 0, 100, "tok456">>
  /\ answers = <<NetError>>
  /\ Len(net) = 1
  /\ ret[1] = "throw"

\* C7: when the POST of sendReading fails in transport, answers non-2xx, or
\* answers a body with success false or no data, sendReading throws; it
\* returns a value only for a 2xx answer with success and data.
C7_SendPropagates ==
  (pc = "settled" /\ call.fn = "sendSensorData" /\ Len(answers) = 1)
  => /\ ( \/ Failed(answers[1])
          \/ ~Is2xx(answers[1])
          \/ answers[1][3] = Unparseable
          \/ Falsy(BodyField(answers[1], "success"))
          \/ Falsy(BodyField(answers[1], "data")) )
        => ret[1] = "throw"
     /\ ret[1] = "return" => Success(ret[2])

C7_Witness ==
  /\ pc = "settled"
  /\ call.fn = "sendSensorData"
  /\ answers = <<Response(500, Unparseable)>>
  /\ ret = Throw(Err("Error", "HTTP error! status: 500"))

\* C8: setRelay and getStatus on a device without a stored token fail with
\* an auth error and issue no request.
C8_RelayNeedsToken ==
  ( /\ call.fn \in {"getRelayStatus", "controlRelay"}
    /\ TokenKey(call.args[1]) \notin DOMAIN storage )
  => /\ pc = "settled"
     /\ net = <<>>
     /\ ret = Throw(Err("Error", "No auth token found for device"))

C8_Witness ==
  /\ pc = "settled"
  /\ call = [fn |-> "controlRelay", args |-> <<"D1", 2, "on">>, works |-> TRUE]
  /\ DOMAIN storage = {"@auth_token_D2"}
  /\ net = <<>>
  /\ ret[1] = "throw"

\* what get(D) returns on the store st while the platform storage works
Get_(st, D) == getAuthToken(st, D, TRUE).out

StoreStep == pc = "idle" /\ call'.fn = "storeAuthToken"

C10_StoreNeverThrows ==
  [][ /\ (pc = "idle" /\ call'.fn \in {"storeAuthToken", "getAuthToken"})
         => ret'[1] = "return"
      /\ (StoreStep /\ ~call'.works)
         => storage' = storage /\ ret' = Return(Undefined)
      /\ (pc = "idle" /\ call'.fn = "getAuthToken" /\ ~call'.works)
         => ret' = Return(Null) ]_vars

C10_Witness ==
  /\ pc = "settled"
  /\ call = [fn |-> "storeAuthToken", args |-> <<"D1", "tok456">>,
             works |-> FALSE]
  /\ ret = Return(Undefined)
  /\ "@auth_token_D1" \in DOMAIN storage
  /\ storage["@auth_token_D1"] = "tok123"

\* a relay operation whose single request the backend has answered
RelayOps == {"getRelayStatus", "controlRelay"}

RelayAnswered ==
  /\ pc = "settled"
  /\ call.fn \in RelayOps
  /\ Len(answers) = 1
  /\ answers[1][1] = "response"

\* C11: for a 2xx /relay/status/D response whose body has success true, a
\* deviceId and a relays map, getStatus(D) returns exactly that response
\* object, no field changed, added or removed.
C11_StatusReturnsResponse ==
  ( /\ RelayAnswered
    /\ call.fn = "getRelayStatus"
    /\ Is2xx(answers[1])
    /\ BodyField(answers[1], "success") = Bool(TRUE)
    /\ BodyField(answers[1], "deviceId") # Undefined
    /\ TypeOf(BodyField(answers[1], "relays")) = "object" )
  => ret = Return(answers[1][3])

C11_Witness ==
  /\ RelayAnswered
  /\ call.fn = "getRelayStatus"
  /\ net[1].req.url = API_URL \o "/relay/status/D1"
  /\ answers[1][2] = 200
  /\ BodyField(answers[1], "updatedAt") # Undefined
  /\ ret = Return(answers[1][3])

\* C12: getStatus and setRelay fail with an error, and return no value,
\* whenever the backend response is non-2xx or its body has success false
\* or lacks deviceId or lacks relays.
C12_RelayRejectsMalformed ==
  ( /\ RelayAnswered
    /\ \/ ~Is2xx(answers[1])
       \/ Falsy(BodyField(answers[1], "success"))
       \/ BodyField(answers[1], "deviceId") = Undefined
       \/ BodyField(answers[1], "relays") = Undefined )
  => ret[1] = "throw"

C12_Witness ==
  /\ RelayAnswered
  /\ call.fn = "controlRelay"
  /\ answers[1][2] = 200
  /\ BodyField(answers[1], "success") = Bool(TRUE)
  /\ BodyField(answers[1], "relays") # Undefined
  /\ BodyField(answers[1], "deviceId") = Undefined
  /\ ret = Throw(InvalidServerFormat)

\* C13: every value that getStatus or setRelay returns successfully carries
\* four relay states relay1..relay4, each one of on or off, for every
\* backend response the operation accepts.
C13_ReturnedRelaysComplete ==
  ( /\ pc = "settled"
    /\ call.fn \in RelayOps
    /\ ret[1] = "return" )
  => LET relays == Get(ret[2], "relays")
     IN  /\ TypeOf(relays) = "object"
         /\ DOMAIN relays[2] = {"relay1", "relay2", "relay3", "relay4"}
         /\ \A k \in DOMAIN relays[2] : relays[2][k] \in {Str("on"), Str("off")}

\* C16: getDeviceDetails fails with an error when deviceId is empty, issuing
\* no HTTP request in that case, and fails with an error when the backend
\* answers non-2xx or with a body that has success false or no device;
\* otherwise the result it returns carries the device object of the response.
C16_DeviceDetails ==
  call.fn = "fetchDeviceDetails"
  => /\ call.args[1] = ""
        => pc = "settled" /\ net = <<>> /\ ret[1] = "throw"
     /\ ( /\ pc = "settled"
          /\ Len(answers) = 1
          /\ answers[1][1] = "response" )
        => IF \/ ~Is2xx(answers[1])
              \/ Falsy(BodyField(answers[1], "success"))
              \/ Falsy(BodyField(answers[1], "device"))
           THEN ret[1] = "throw"
           ELSE ret = Return(Obj([success |-> Bool(TRUE),
                                  device |-> BodyField(answers[1], "device")]))

C16_Witness ==
  /\ pc = "settled"
  /\ call = [fn |-> "fetchDeviceDetails", args |-> <<"D2">>, works |-> TRUE]
  /\ net[1].req.url = API_URL \o "/devices/D2"
  /\ answers = <<Response(201, Obj([success |-> Bool(TRUE),
                                    device |-> Details1]))>>
  /\ Get(ret[2], "device") = Details1

\* what has happened to the i-th request of the call
RawOf(i) == IF i <= Len(answers) THEN answers[i] ELSE Unanswered

TimeoutError == Throw(Err("AbortError", "Aborted"))
ConnectionError == Throw(Err("TypeError", "Network request failed"))

\* the requests made through fetchWithTimeout: one is in flight exactly
\* while its timer is armed, ends as a timeout error exactly when the timer
\* fired, and has its timer cleared once it completed or failed
TimersFollowRequests ==
  \A i \in 1..Len(net) :
    net[i].timeout > 0
    => /\ net[i].timer = "armed" <=> net[i].res = Pending
       /\ net[i].timer = "armed" <=> RawOf(i) = Unanswered
       /\ net[i].timer = "fired" <=> net[i].res = TimeoutError
       /\ net[i].timer = "fired" <=> RawOf(i) = TimerFired
       /\ RawOf(i) = NetError
          => net[i].timer = "cleared" /\ net[i].res = ConnectionError
       /\ RawOf(i)[1] = "response"
          => net[i].timer = "cleared" /\ net[i].res = Return(RawOf(i))

\* C17: in fetchWithTimeout a call still in flight when the timer fires is
\* aborted and reported as a timeout error, which differs from a connection
\* error; a call that completes or fails first disarms the timer, so no
\* abort fires afterwards: its outcome never changes.
C17_TimeoutAborts ==
  /\ TimersFollowRequests
  /\ TimeoutError # ConnectionError
  /\ [][ /\ TimersFollowRequests'
         /\ \A i \in 1..Len(net) :
              (call' = call /\ net[i].timer \in {"cleared", "fired"})
              => i <= Len(net') /\ net'[i] = net[i]
         /\ \A i \in 1..Len(net) :
              (call' = call /\ net[i].timer = "armed" /\ i <= Len(answers'))
              => \/ answers'[i] = TimerFired /\ net'[i].res = TimeoutError
                 \/ answers'[i] # TimerFired /\ net'[i].timer = "cleared" ]_vars

\* a first request that completed with its timer cleared, then a second
\* request of the same call that was aborted by its timer
C17_Witness ==
  /\ pc = "settled"
  /\ call.fn = "fetchLatestData"
  /\ Len(net) = 2
  /\ answers = <<Response(404, Unparseable), TimerFired>>
  /\ net[1].timer = "cleared"
  /\ net[1].timeout = 60000
  /\ net[2].timer = "fired"
  /\ net[2].res = TimeoutError

SensorOps == {"fetchLatestData", "fetchHistoryData", "sendSensorData"}

\* a token for the device of the call can be resolved: the explicit
\* parameter of sendReading, or what the Credential Store yields
TokenResolvable ==
  IF call.fn = "sendSensorData" THEN call.args[5] # ""
  ELSE Truthy(getAuthToken(storage, call.args[1], call.works).out[2])

\* the requests of the call that carry a token, and the token they carry
SendsToken(x) == "x-auth-token" \in DOMAIN x.req.headers

\* C18 as stated: every sensor operation and every relay operation on a
\* device issues an HTTP request only if a token for that device is
\* resolvable, and ends in a client-side error without a request otherwise.
C18_EveryOperationNeedsToken ==
  (call.fn \in SensorOps \cup RelayOps /\ call.args[1] # "")
  => /\ net # <<>> => TokenResolvable
     /\ ~TokenResolvable
        => pc = "settled" /\ net = <<>> /\ ret[1] = "throw"

\* C18 (amended): getStatus and setRelay issue a request only if the
\* Credential Store yields a token for the device, sending that token, and
\* end in a client-side error without a request otherwise; sendReading
\* sends the token given as its parameter; getLatest and getHistory use no
\* token: their requests carry none and are issued for every non-empty
\* device id, whether or not a token for the device is resolvable.
C18_TokenWhereUsed ==
  /\ call.fn \in RelayOps
     => /\ net # <<>>
           => /\ TokenResolvable
              /\ \A i \in 1..Len(net) :
                   /\ SendsToken(net[i])
                   /\ net[i].req.headers["x-auth-token"]
                        = storage[TokenKey(call.args[1])]
        /\ ~TokenResolvable
           => pc = "settled" /\ net = <<>> /\ ret[1] = "throw"
  /\ call.fn = "sendSensorData"
     => \A i \in 1..Len(net) :
          /\ SendsToken(net[i])
          /\ net[i].req.headers["x-auth-token"] = call.args[5]
  /\ call.fn \in {"fetchLatestData", "fetchHistoryData"}
     => /\ \A i \in 1..Len(net) : ~SendsToken(net[i])
        /\ call.args[1] # "" => net # <<>>

\* getLatest on a device without any stored token has its request in flight
C18_Witness ==
  /\ pc = "awaiting"
  /\ call = [fn |-> "fetchLatestData", args |-> <<"D1">>, works |-> TRUE]
  /\ DOMAIN storage = {}
  /\ ~TokenResolvable
  /\ Len(net) = 1
  /\ net[1].req.url = API_URL \o "/devices/D1/latest"
  /\ net[1].res = Pending

\* C19: every request that a service sends to the backend is
\* timeout-bounded, so each service operation eventually returns or fails
\* even when the backend never answers: no request is in flight without an
\* armed abort timer.
C19_EveryRequestTimeoutBounded ==
  \A i \in 1..Len(net) :
    /\ net[i].timeout > 0
    /\ InFlight(net[i]) => net[i].timer = "armed"

WakeupUrl == API_URL \o "/wakeup"
DirectoryUrl == API_URL \o "/devices/count"

\* the wake-up requests of the call so far, and its directory fetches
WakeupRequests == {i \in 1..Len(net) : net[i].req.url = WakeupUrl}
DirectoryRequests == {i \in 1..Len(net) : net[i].req.url = DirectoryUrl}

\* the wake-up phase is over: a wake-up request answered 2xx, or the third
\* one failed
WakeupOver ==
  \E i \in WakeupRequests :
    /\ i <= Len(answers)
    /\ Is2xx(answers[i]) \/ i = 3

\* C15: listDevicesWithWakeup issues at most 3 wake-up requests, stops
\* retrying after the first wake-up request that answers 2xx, waits only
\* between attempts, and in every case (wake-up success, three failures or
\* thrown errors) then issues the plain directory fetch exactly once and
\* returns its result.
C15_WakeupThenFetch ==
  call.fn = "fetchDevicesWithWakeup"
  => /\ Cardinality(WakeupRequests) <= 3
     /\ \E k \in 1..3 : WakeupRequests = 1..k
     /\ \A i \in WakeupRequests :
          /\ net[i].req.method = "GET"
          /\ net[i].timeout = 30000
          /\ (i <= Len(answers) /\ Is2xx(answers[i]))
             => i + 1 \notin WakeupRequests
          /\ (i <= Len(answers) /\ ~Is2xx(answers[i]) /\ i < 3)
             => i + 1 \in WakeupRequests
     /\ {io[j].after : j \in 1..Len(io)}
          = {i \in WakeupRequests : i + 1 \in WakeupRequests}
     /\ Len(io) = Cardinality(WakeupRequests) - 1
     /\ \A j \in 1..Len(io) : io[j].op = "setTimeout" /\ io[j].ms = 2000
     /\ IF WakeupOver
        THEN /\ DirectoryRequests = {Cardinality(WakeupRequests) + 1}
             /\ Len(net) = Cardinality(WakeupRequests) + 1
        ELSE DirectoryRequests = {} /\ pc = "awaiting"
     /\ pc = "settled"
        => /\ WakeupOver
           /\ ret = fetchDevices(answers[Len(answers)]).out
           /\ ret[1] = "return"

\* three failed wake-up attempts (an HTTP error, a connection error, a
\* timeout), two waits, then the directory fetch and its result
C15_Witness ==
  /\ pc = "settled"
  /\ call.fn = "fetchDevicesWithWakeup"
  /\ Len(answers) = 4
  /\ answers[1] = Response(500, Unparseable)
  /\ answers[2] = NetError
  /\ answers[3] = TimerFired
  /\ Len(io) = 2
  /\ net[4].req.url = DirectoryUrl
  /\ ret = Return(DevicesResult(TRUE, <<mapDevice(Dev1)>>))

\* the relay state, or states, that component u displays
Displayed(u) == IF u.comp = "widget" THEN u.relayState ELSE u.relayStates

\* the state, or states, for u in the response that setRelay returned as out
Reported(u, out) ==
  IF u.comp = "widget"
  THEN Get(Get(out[2], "relays"), relayKey(u.relayNumber))
  ELSE Get(out[2], "relays")

\* a widget still displays what it displayed when its toggle in flight
\* was pressed: the toggle asked for the opposite of the displayed state
WidgetShowsPressedState(u) ==
  (u.comp = "widget" /\ ~u.initializing)
  => \A i \in 1..Len(u.flights) :
       u.flights[i].req.body[2][2].state = Str(toggled(u.relayState))

C20_LastArrivalWins ==
  ui.comp = "screen"
  => IF ui.lastOk = <<>> THEN ui.sensorData = Null
     ELSE ui.sensorData = ui.lastOk[2]

\* the response of the second cycle arrived while the first cycle was in
\* flight; the response of the first cycle, arriving later, is on display
C20_Witness ==
  /\ ui.comp = "screen"
  /\ ui.maxOk = 2
  /\ ui.lastOk # <<>>
  /\ ui.lastOk[1] = 1
  /\ ui.sensorData = ui.lastOk[2]
  /\ Get(ui.sensorData, "temperature") = Num(19)

\* the readings of the backend response to a getHistory call, and those of
\* the result the call returned
BackendReadings == BodyField(answers[1], "data")[2]
ReturnedReadings == Get(ret[2], "data")[2]

\* getHistory returned success:true on a 2xx response
HistoryReturned ==
  /\ pc = "settled"
  /\ call.fn = "fetchHistoryData"
  /\ Len(answers) = 1
  /\ Is2xx(answers[1])
  /\ Success(ret[2])

\* C22: every reading in a successful getHistory result has a numeric
\* distance: a backend reading with no distance field is returned with
\* distance 0, and the other fields and the order of the readings are those
\* of the backend response.
C22_HistoryDistance ==
  HistoryReturned
  => /\ Len(ReturnedReadings) = Len(BackendReadings)
     /\ \A i \in 1..Len(ReturnedReadings) :
          LET b == BackendReadings[i]
              r == ReturnedReadings[i]
          IN  /\ TypeOf(Get(r, "distance")) = "number"
              /\ Get(b, "distance") = Undefined => Get(r, "distance") = Num(0)
              /\ Get(b, "distance") # Undefined
                 => Get(r, "distance") = Get(b, "distance")
              /\ \A f \in {"temperature", "humidity", "soilMoisture",
                            "timestamp"} : Get(r, f) = Get(b, f)

C22_Witness ==
  /\ HistoryReturned
  /\ BackendReadings = <<R2, R1>>
  /\ Get(ReturnedReadings[1], "distance") = Num(0)
  /\ Get(ReturnedReadings[1], "temperature") = Num(19)
  /\ Get(ReturnedReadings[2], "distance") = Num(120)

\* C23: for every device D and limit N, a successful getHistory(D, N)
\* returns at most N readings, whatever number of readings the backend
\* response contains.
C23_HistoryAtMostLimit ==
  ( /\ pc = "settled"
    /\ call.fn = "fetchHistoryData"
    /\ ret[1] = "return"
    /\ Success(ret[2]) )
  => Len(ReturnedReadings) <= call.args[2]

LatestUrl(deviceId) == API_URL \o "/devices/" \o deviceId \o "/latest"

\* C25: one call of fetchLatestData issues at most two HTTP requests: one
\* /latest request and at most one history request with limit 1; the
\* history fallback is never run twice within the same call, whichever
\* branch (404 or thrown error) triggers it.
C25_LatestAtMostTwoRequests ==
  call.fn = "fetchLatestData"
  => /\ Len(net) <= 2
     /\ \A i \in 1..Len(net) :
          net[i].req.url = IF i = 1 THEN LatestUrl(call.args[1])
                           ELSE HistoryUrl(call.args[1], 1)
     /\ Len(net) = 2
        => \/ answers[1][1] = "response" /\ answers[1][2] = 404
           \/ PrimaryFailed

\* the 404 branch ran the fallback, which found nothing: two requests
C25_Witness ==
  /\ pc = "settled"
  /\ call = [fn |-> "fetchLatestData", args |-> <<"D2">>, works |-> TRUE]
  /\ Len(net) = 2
  /\ answers[1] = Response(404, Unparseable)
  /\ answers[2] = Response(500, Unparseable)
  /\ net[2].req.url = HistoryUrl("D2", 1)
  /\ Success(ret[2])

\* C30: fetchLatestData and fetchHistoryData called with an empty deviceId
\* issue no HTTP request at all and return success:false (a zero-valued
\* reading, respectively an empty list).
C30_EmptyDeviceId ==
  (call.fn \in {"fetchLatestData", "fetchHistoryData"} /\ call.args[1] = "")
  => /\ pc = "settled"
     /\ net = <<>>
     /\ ret = IF call.fn = "fetchLatestData"
              THEN Return(Obj([success |-> Bool(FALSE), data |-> Zeros(now)]))
              ELSE Return(Obj([success |-> Bool(FALSE), data |-> Arr(<<>>)]))

C30_Witness ==
  /\ pc = "settled"
  /\ call = [fn |-> "fetchLatestData", args |-> <<"">>, works |-> TRUE]
  /\ net = <<>>
  /\ now = 1
  /\ Failure(ret[2])
  /\ Get(Get(ret[2], "data"), "timestamp") = toISOString(1)

\* the navigation parameters that the press of device d passes
ParamsOf(d) ==
  Obj([deviceId |-> Get(d, "deviceId"), name |-> Get(d, "name"),
       location |-> Get(d, "location"), authToken |-> Get(d, "authToken")])

NonEmpty(v) == TypeOf(v) = "string" /\ v # Str("")

\* C29: the device list screen navigates to the sensor detail screen only
\* for a device with a non-empty deviceId and a non-empty token, and then
\* passes exactly that device's deviceId, name, location and token; pressing
\* a device that lacks either leaves the screen where it is.
C29_NavigateOnlyWithToken ==
  [][ ui.comp = "devices"
      => /\ ui'.route # ui.route /\ ui'.route # DevicesRoute
            => /\ ui.route = DevicesRoute
               /\ \E i \in 1..Len(ui.devices[2]) :
                    ui'.pressed = ui.devices[2][i]
               /\ NonEmpty(Get(ui'.pressed, "deviceId"))
               /\ NonEmpty(Get(ui'.pressed, "authToken"))
               /\ ui'.route = <<"SensorDetail", ParamsOf(ui'.pressed)>>
         /\ ( /\ ui'.pressed # ui.pressed
              /\ \/ ~NonEmpty(Get(ui'.pressed, "deviceId"))
                 \/ ~NonEmpty(Get(ui'.pressed, "authToken")) )
            => ui'.route = ui.route /\ ui'.route = DevicesRoute ]_vars

\* the device without a token was pressed, and the list is still on display
C29_Witness ==
  /\ ui.comp = "devices"
  /\ ui.pressed = mapDevice(Dev3)
  /\ ui.route = DevicesRoute
  /\ ui.devices = Arr(<<mapDevice(Dev3), mapDevice(Dev1)>>)

CycleIds(u) == {u.cycles[i].id : i \in 1..Len(u.cycles)}

\* C21: after the sensor detail view is torn down its repeating timer is
\* cleared, so no new polling cycle starts after teardown; a cycle in flight
\* at teardown is not cancelled.
C21_NoCycleAfterTeardown ==
  [][ ui.comp = "screen"
      => /\ ui.mounted /\ ~ui'.mounted
            => /\ ui'.interval = "cleared"
               /\ ui'.cycles = ui.cycles
         /\ ~ui.mounted
            => /\ ~ui'.mounted
               /\ ui'.interval = "cleared"
               /\ ui'.started = ui.started
               /\ CycleIds(ui') \subseteq CycleIds(ui) ]_vars

\* the view was torn down with a cycle in flight before the timer had
\* fired for the last time, and that cycle has run to its end since
C21_Witness ==
  /\ ui.comp = "screen"
  /\ ~ui.mounted
  /\ ui.left > 0
  /\ ui.cycles = <<>>
  /\ ui.started < MaxCycles

\* a cycle is started in this step by a screen with a token in its
\* navigation parameters
CycleStartsWithToken ==
  /\ ui'.comp = "screen"
  /\ ui'.authToken # ""
  /\ ui = NoComponent \/ ui'.started > ui.started

\* C24 as claimed: while a cycle of a screen with a token in its navigation
\* parameters is in flight, the store holds that token for the device.
C24_TokenStoredBeforeRequests ==
  ui.comp = "screen" /\ ui.authToken # "" /\ ui.cycles # <<>>
    => Cached(storage, PropDeviceId) = Str(ui.authToken)

\* C24: every polling cycle of a screen with a token in its navigation
\* parameters writes that token to the store for the device before it
\* issues its latest or history request, overwriting any cached token;
\* when the write fails the store is left as it was and the cycle goes on.
C24_TokenWrittenBeforeRequests ==
  [][ CycleStartsWithToken
      => /\ Len(io') = 1
         /\ io'[1].op = "setItem"
         /\ io'[1].key = TokenKey(PropDeviceId)
         /\ io'[1].works
              => Cached(storage', PropDeviceId) = Str(ui'.authToken)
         /\ ~io'[1].works => storage' = storage
         /\ ui'.cycles[Len(ui'.cycles)].call.fn = "fetchLatestData"
         /\ ui'.cycles[Len(ui'.cycles)].answers = <<>> ]_vars

\* the token of the navigation parameters has replaced the token of an
\* earlier visit, and a cycle is in flight
C24_Witness ==
  /\ ui.comp = "screen"
  /\ ui.authToken = "tok123"
  /\ ui.cached = Str("tok456")
  /\ Cached(storage, PropDeviceId) = Str("tok123")
  /\ ui.cycles # <<>>

\* C27: in the sensor detail screen, once a reading is displayed a later
\* polling cycle that fails leaves the displayed reading and its
\* last-updated time unchanged and never resets it to empty, and the
\* displayed history is replaced only by a successful non-empty history
\* result.
C27_FailedCycleKeepsDisplay ==
  [][ ui.comp = "screen"
      => /\ ui.sensorData # Null /\ ui'.lastOk = ui.lastOk
            => /\ ui'.sensorData = ui.sensorData
               /\ ui'.lastUpdated = ui.lastUpdated
         /\ ui.sensorData # Null
            => ui'.sensorData # Null /\ ui'.lastUpdated # Null
         /\ ui'.historyData # ui.historyData
            => Len(ui'.historyData[2]) > 0 ]_vars

\* a cycle failed while a reading was on display, and that reading is
\* still on display with its time
C27_Witness ==
  /\ ui.comp = "screen"
  /\ ui.kept # Null
  /\ ui.sensorData = ui.kept
  /\ ui.lastUpdated # Null
  /\ ui.maxOk = 1
  /\ ui.started = 2
  /\ ui.cycles = <<>>

\* the relay numbers of the control requests of the panel in flight
ToggleFlights(u) == {i \in 1..Len(u.flights) : u.flights[i].h = "toggle"}
FlightRelay(u, i) == u.flights[i].req.body[2][2].relayNumber

\* C26: in the four-relay panel, while a control request for relay N is in
\* flight the button of relay N stays disabled, so at most one control
\* request per relay is in flight at any time, also when another relay is
\* toggled and resolves in the meantime.
C26_OneRequestPerRelay ==
  ui.comp = "panel"
  => /\ \A i \in ToggleFlights(ui) : ui.loading = FlightRelay(ui, i)
     /\ \A i, j \in ToggleFlights(ui) :
          FlightRelay(ui, i) = FlightRelay(ui, j) => i = j

\* C28: whenever a RelayWidget shows its toggle button, the on/off state
\* it displays for its relay is a value that the backend reported for that
\* relay in a status or control response.
C28_WidgetShowsReportedState ==
  (ui.comp = "widget" /\ ~ui.initializing)
    => ui.relayState \in ui.reported

====
